---- MODULE Spec2Model ----
(***************************************************************************)
(* Model of the concurrent crawler (packages/api/src/crawler.ts): URL      *)
(* normalisation, the scope guard, link extraction and the processQueue /  *)
(* processURL scheduler of crawl().                                        *)
(*                                                                         *)
(* A string is a sequence of tokens (a scheme, "//", a host name, a port,  *)
(* "/", path segments, a query, a fragment, or junk).  new URL(...) is     *)
(* modelled by ParseURL, which really parses the token sequence, and the   *)
(* template literal of normalizeURL and URL.href by concatenation.         *)
(***************************************************************************)
EXTENDS Integers, Sequences, FiniteSets, TLC

(***************************************************************************)
(* Bounds of the model.                                                    *)
(***************************************************************************)
\* largest maxConcurrency option tried
MaxConc == 2

\* default of options.rateLimitMs
DefaultRateLimitMs == 100

(***************************************************************************)
(* Token alphabet of URL strings.                                          *)
(***************************************************************************)
HttpProtocols == {"https:", "http:"}
OtherProtocols == {"mailto:"}
HostNames == {"h.com", "blog.h.com"}
Ports == {":8080"}
Segments == {"a", "b"}
PathTokens == Segments \cup {"/"}
Queries == {"?q=1", "?q=2"}
Fragments == {"#top"}

Max(S) == CHOOSE x \in S : \A y \in S : y <= x

Last(s) == s[Len(s)]

(***************************************************************************)
(* new URL(s): the WHATWG parser on token sequences.                       *)
(***************************************************************************)
\* F applied to the value of e, which is computed once
With(e, F(_)) == CHOOSE r \in {F(v) : v \in {e}} : TRUE

\* the token indexes at which the parser leaves the authority (host and
\* optional port), the path, the query and the fragment
Scan(s) ==
  With(IF Len(s) >= 4 /\ s[4] \in Ports THEN 4 ELSE 3, LAMBDA authorityEnd :
  With(Max({i \in authorityEnd..Len(s) :
              \A j \in (authorityEnd + 1)..i : s[j] \in PathTokens}), LAMBDA pathEnd :
  With(IF Len(s) > pathEnd /\ s[pathEnd + 1] \in Queries
       THEN pathEnd + 1 ELSE pathEnd, LAMBDA queryEnd :
  [authorityEnd |-> authorityEnd,
   pathEnd      |-> pathEnd,
   queryEnd     |-> queryEnd,
   fragmentEnd  |-> IF Len(s) > queryEnd /\ s[queryEnd + 1] \in Fragments
                    THEN queryEnd + 1 ELSE queryEnd])))

\* new URL(s) does not throw: s is an absolute http(s) URL
CanParse(s) ==
  /\ Len(s) >= 3
  /\ s[1] \in HttpProtocols
  /\ s[2] = "//"
  /\ s[3] \in HostNames
  /\ \E at \in {Scan(s)} :
       /\ at.fragmentEnd = Len(s)
       /\ (at.pathEnd > at.authorityEnd => s[at.authorityEnd + 1] = "/")

\* the URL object built by new URL(s); an empty path is parsed as "/"
ParseURL(s) ==
  With(Scan(s), LAMBDA at :
  [protocol |-> s[1],
   hostname |-> s[3],
   port     |-> IF at.authorityEnd = 4 THEN s[4] ELSE "",
   pathname |-> IF at.pathEnd = at.authorityEnd THEN <<"/">>
                ELSE SubSeq(s, at.authorityEnd + 1, at.pathEnd),
   search   |-> IF at.queryEnd > at.pathEnd THEN s[at.queryEnd] ELSE "",
   hash     |-> IF at.fragmentEnd > at.queryEnd THEN s[at.fragmentEnd] ELSE ""])

\* a template-literal part: the empty string adds no token
Str(t) == IF t = "" THEN <<>> ELSE <<t>>

\* URL.href: the serialisation of a URL object
Href(u) ==
  <<u.protocol, "//", u.hostname>> \o Str(u.port) \o u.pathname
    \o Str(u.search) \o Str(u.hash)

(***************************************************************************)
(* normalizeURL and isSameSubdomain.                                       *)
(***************************************************************************)
\* path.endsWith('/') ? path.slice(0, -1) : path
StripTrailingSlash(path) ==
  IF Len(path) > 0 /\ Last(path) = "/" THEN SubSeq(path, 1, Len(path) - 1)
  ELSE path

\* variant: the query string is left out of the key
normalizeURL_WithoutSearch(urlString) ==
  IF ~CanParse(urlString)
  THEN [threw |-> TRUE, value |-> <<"Invalid URL: ">> \o urlString]
  ELSE With(ParseURL(urlString), LAMBDA url :
       [threw |-> FALSE,
        value |-> <<url.protocol, "//", url.hostname>>
                    \o StripTrailingSlash(url.pathname)])

\* normalizeURL(urlString); threw = TRUE models the thrown Error
normalizeURL(urlString) ==
  IF ~CanParse(urlString)
  THEN [threw |-> TRUE, value |-> <<"Invalid URL: ">> \o urlString]
  ELSE With(ParseURL(urlString), LAMBDA url :
       [threw |-> FALSE,
        value |-> <<url.protocol, "//", url.hostname>>
                    \o StripTrailingSlash(url.pathname) \o Str(url.search)])

\* variant: a host below the base host also counts as the same site
isSameSubdomain_Suffix(baseURL, targetURL) ==
  IF CanParse(baseURL) /\ CanParse(targetURL)
  THEN \/ ParseURL(baseURL).hostname = ParseURL(targetURL).hostname
       \/ /\ ParseURL(baseURL).hostname = "h.com"
          /\ ParseURL(targetURL).hostname = "blog.h.com"
  ELSE FALSE

\* variant: the catch block answers true
isSameSubdomain_CatchTrue(baseURL, targetURL) ==
  IF CanParse(baseURL) /\ CanParse(targetURL)
  THEN ParseURL(baseURL).hostname = ParseURL(targetURL).hostname
  ELSE TRUE

\* isSameSubdomain(baseURL, targetURL): the ELSE branch is the catch block
isSameSubdomain(baseURL, targetURL) ==
  IF CanParse(baseURL) /\ CanParse(targetURL)
  THEN ParseURL(baseURL).hostname = ParseURL(targetURL).hostname
  ELSE FALSE

(***************************************************************************)
(* getLinksFromHTML.  A document is the sequence of the href attributes of *)
(* its anchors, in document order; <<>> is an anchor without href.         *)
(***************************************************************************)
\* new URL(href, baseURL) for a base that parses; threw = TRUE models the
\* TypeError of an href that cannot be resolved
ResolveURL(href, baseURL) ==
  With(ParseURL(baseURL), LAMBDA base :
  IF href[1] \in HttpProtocols
    THEN IF CanParse(href) THEN [threw |-> FALSE, url |-> ParseURL(href)]
         ELSE [threw |-> TRUE, url |-> base]
  ELSE IF href[1] \in OtherProtocols
    THEN [threw |-> FALSE,
          url |-> [protocol |-> href[1], hostname |-> "", port |-> "",
                   pathname |-> Tail(href), search |-> "", hash |-> ""]]
  ELSE IF href[1] = "/"
    THEN [threw |-> FALSE,
          url |-> ParseURL(<<base.protocol, "//", base.hostname>>
                             \o Str(base.port) \o href)]
  ELSE IF href[1] \in Fragments
    THEN [threw |-> FALSE, url |-> [base EXCEPT !.hash = href[1]]]
  ELSE [threw |-> TRUE, url |-> base])

RECURSIVE getLinksFromHTML(_, _)
getLinksFromHTML(html, baseURL) ==
  IF html = <<>> THEN <<>>
  ELSE With(getLinksFromHTML(Tail(html), baseURL), LAMBDA rest :
       IF Head(html) = <<>> THEN rest
       ELSE With(ResolveURL(Head(html), baseURL), LAMBDA absoluteURL :
            IF absoluteURL.threw THEN rest
            ELSE IF absoluteURL.url.protocol \notin HttpProtocols THEN rest
            ELSE <<Href(absoluteURL.url)>> \o rest))

(***************************************************************************)
(* fetchPage.  A response is what fetch(url) settles with.                 *)
(***************************************************************************)
\* "neterr": fetch rejects; "status": response.ok is false; "type": the
\* content type is not text/html; "blank": an HTML response with the empty
\* string as body; "html": an HTML response with a document
FailureKinds == {"neterr", "status", "type"}

\* fetchPage(url) once fetch(url) has settled with response:
\* null for a failure, the body text otherwise
fetchPage(response) ==
  IF response.kind \in FailureKinds
  THEN [null |-> TRUE, text |-> <<>>, empty |-> FALSE, pending |-> FALSE]
  ELSE [null |-> FALSE, text |-> response.body,
        empty |-> response.kind = "blank", pending |-> FALSE]

\* !html of processURL: null and the empty string are both falsy
Falsy(html) == html.null \/ html.empty

\* the value of a fetchPage call that has not settled yet
Pending == [null |-> FALSE, text |-> <<>>, empty |-> FALSE, pending |-> TRUE]

(***************************************************************************)
(* Inputs of a crawl.                                                      *)
(***************************************************************************)
Root == <<"https:", "//", "h.com">>
PageASlash == <<"https:", "//", "h.com", "/", "a", "/">>
PageB == <<"https:", "//", "h.com", "/", "b">>
BlogA == <<"https:", "//", "blog.h.com", "/", "a">>
NotAURL == <<"not a url">>

\* the start URLs tried
StartURLs == {Root, PageASlash, NotAURL}

\* the documents a page of the site may have: no anchor, a link to the
\* root, one page under two spellings around an external link, an internal
\* and an external link,
\* two internal pages in either order, anchors that are skipped together
\* with a fragment link and a link that carries a query
Documents ==
  { <<>>,
    << <<"/">> >>,
    << <<"/", "a">>, BlogA, PageASlash >>,
    << PageB, BlogA >>,
    << <<"/", "a">>, PageB >>,
    << PageB, <<"/", "a">>, <<"/">> >>,
    << <<>>, <<"mailto:", "a">>, <<"https:", "//">>, <<"#top">>,
       <<"/", "a", "?q=1">> >> }

\* what a fetch may settle with
Responses ==
  [kind : FailureKinds \cup {"blank"}, body : {<<>>}]
    \cup [kind : {"html"}, body : Documents]

(***************************************************************************)
(* State of one crawl(startURL, options) invocation.                       *)
(***************************************************************************)
VARIABLES
  startURL,        \* argument of crawl
  maxConcurrency,  \* options.maxConcurrency
  rateLimitMs,     \* options.rateLimitMs
  results,         \* CrawlResult[]
  visited,         \* Set of normalized URLs
  queue,           \* string[]
  inProgress,      \* Set of normalized URLs
  isProcessing,    \* re-entrancy flag of processQueue
  pc,              \* where processQueue is suspended
  tasks,           \* the processURL promises of the current batch
  fetches,         \* every fetchPage(url) call, with its value once settled
  rounds,          \* number of admission rounds that dispatched a batch
  delays,          \* number of rate-limit timers started
  sleptMs,         \* total time spent in rate-limit timers
  outcome,         \* state of the promise returned by crawl
  call,            \* a direct call of an exported function and its returns
  api,             \* a POST /api/crawl request and what the handler did
  suspended,       \* the state of another crawl invocation, not running now
  site,            \* the response of the site crawled to a fetch of each URL
  stream,          \* an OptimizedCrawler.crawlStream call and its result stream
  batches,         \* a BatchCrawler.crawlInBatches call
  app              \* the state of the App component of the web UI

vars == <<startURL, maxConcurrency, rateLimitMs, results, visited, queue,
          inProgress, isProcessing, pc, tasks, fetches, rounds, delays,
          sleptMs, outcome, call, api, suspended, site, stream, batches, app>>

\* the state of the crawl invocation that is running
crawlVars == <<startURL, maxConcurrency, rateLimitMs, results, visited, queue,
               inProgress, isProcessing, pc, tasks, fetches, rounds, delays,
               sleptMs, outcome>>

\* what a step of a crawl invocation cannot touch
outside == <<call, api, suspended, site, stream, batches, app>>

\* no exported function is called directly
NoCall == [fn |-> "none", args |-> <<>>, returned |-> <<>>]

\* no value was thrown
NoReason == [isError |-> FALSE, message |-> ""]

\* no request was made
NoRequest ==
  [url |-> [defined |-> FALSE, value |-> <<>>], crawler |-> "none",
   at |-> "none", crawlCalls |-> <<>>, reason |-> NoReason,
   responses |-> <<>>]

\* no other crawl invocation exists
NoInvocation == [exists |-> FALSE]

\* no site is fixed: a fetch may bring any response
NoSite == <<>>

\* crawlStream is not called
NoStream == [exists |-> FALSE]

\* crawlInBatches is not called
NoBatch == [exists |-> FALSE]

\* the App component is not mounted
NoApp == [exists |-> FALSE]

Init ==
  /\ startURL \in StartURLs
  /\ maxConcurrency \in 1..MaxConc
  /\ rateLimitMs \in {0, DefaultRateLimitMs}
  /\ results = <<>>
  /\ visited = {}
  /\ queue = <<startURL>>
  /\ inProgress = {}
  /\ isProcessing = FALSE
  /\ pc = "call"
  /\ tasks = <<>>
  /\ fetches = <<>>
  /\ rounds = 0
  /\ delays = 0
  /\ sleptMs = 0
  /\ outcome = "pending"
  /\ call = NoCall
  /\ api = NoRequest
  /\ suspended = NoInvocation
  /\ site = NoSite
  /\ stream = NoStream
  /\ batches = NoBatch
  /\ app = NoApp

(***************************************************************************)
(* Array and Set helpers.                                                  *)
(***************************************************************************)
Range(s) == {s[i] : i \in 1..Len(s)}

\* variant: the last occurrence of a value is the one that is kept
RECURSIVE Dedup_KeepLast(_)
Dedup_KeepLast(list) ==
  IF list = <<>> THEN <<>>
  ELSE With(Dedup_KeepLast(Tail(list)), LAMBDA back :
       IF Head(list) \in Range(back) THEN back ELSE <<Head(list)>> \o back)

\* [...new Set(list)]: first occurrences, in order
RECURSIVE Dedup(_)
Dedup(list) ==
  IF list = <<>> THEN <<>>
  ELSE With(Dedup(SubSeq(list, 1, Len(list) - 1)), LAMBDA front :
       IF Last(list) \in Range(front) THEN front ELSE Append(front, Last(list)))

\* variant: the whole queue is taken, whatever the number of free slots
SpliceCount_All(list, deleteCount) == Len(list)

\* variant: one URL is taken per round
SpliceCount_One(list, deleteCount) ==
  IF deleteCount <= 0 \/ Len(list) = 0 THEN 0 ELSE 1

\* queue.splice(0, deleteCount): the number of elements removed
SpliceCount(list, deleteCount) ==
  IF deleteCount <= 0 THEN 0
  ELSE IF deleteCount > Len(list) THEN Len(list) ELSE deleteCount

\* variant: the batch is taken from the tail of the queue
Splice_FromTail(list, n) ==
  [removed   |-> SubSeq(list, Len(list) - n + 1, Len(list)),
   remaining |-> SubSeq(list, 1, Len(list) - n)]

\* queue.splice(0, n) for n within the length of the queue: the elements
\* removed from the head, which splice returns, and those that remain
Splice(list, n) ==
  [removed   |-> SubSeq(list, 1, n),
   remaining |-> SubSeq(list, n + 1, Len(list))]

\* variant: the loop over the links stops after the first internal link
InternalLinks_OnlyFirst(base, links) ==
  With(SelectSeq(links, LAMBDA link : isSameSubdomain(base, link)), LAMBDA internal :
  IF internal = <<>> THEN <<>> ELSE <<Head(internal)>>)

\* variant: every link is kept, whatever its host
InternalLinks_All(base, links) == links

\* list.filter(link => isSameSubdomain(base, link))
InternalLinks(base, links) == SelectSeq(links, LAMBDA link : isSameSubdomain(base, link))

(***************************************************************************)
(* processURL after await fetchPage(url): the record it pushes and the     *)
(* links it appends to the queue.                                          *)
(***************************************************************************)
\* links.map(link => normalizeURL(link)) throws for some link
NormalizeThrows(links) == \E k \in 1..Len(links) : normalizeURL(links[k]).threw

\* [...new Set(links.map(link => normalizeURL(link)))]
NormalizedLinks(links) ==
  With([k \in 1..Len(links) |-> normalizeURL(links[k]).value], LAMBDA mapped :
  Dedup(mapped))

\* variant: the !html branch records the raw URL instead of the normalized one
CrawlResultOf_RawURLOnFailure(url, normalizedURL, html) ==
  IF Falsy(html) THEN [url |-> url, links |-> <<>>]
  ELSE With(getLinksFromHTML(html.text, url), LAMBDA links :
       IF NormalizeThrows(links) THEN [url |-> normalizedURL, links |-> <<>>]
       ELSE [url |-> normalizedURL, links |-> NormalizedLinks(links)])

\* variant: the record carries the URL as it was dispatched
CrawlResultOf_RawURL(url, normalizedURL, html) ==
  IF Falsy(html) THEN [url |-> url, links |-> <<>>]
  ELSE With(getLinksFromHTML(html.text, url), LAMBDA links :
       IF NormalizeThrows(links) THEN [url |-> url, links |-> <<>>]
       ELSE [url |-> url, links |-> NormalizedLinks(links)])

\* the CrawlResult pushed for url: by the !html branch, the try block or
\* the catch block
CrawlResultOf(url, normalizedURL, html) ==
  IF Falsy(html) THEN [url |-> normalizedURL, links |-> <<>>]
  ELSE With(getLinksFromHTML(html.text, url), LAMBDA links :
       IF NormalizeThrows(links) THEN [url |-> normalizedURL, links |-> <<>>]
       ELSE [url |-> normalizedURL, links |-> NormalizedLinks(links)])

\* variant: the loop over the links runs from the last link to the first
QueuedLinks_Reversed(base, url, html) ==
  IF Falsy(html) THEN <<>>
  ELSE With(getLinksFromHTML(html.text, url), LAMBDA links :
       IF NormalizeThrows(links) THEN <<>>
       ELSE With(InternalLinks(base, links), LAMBDA internal :
            [k \in 1..Len(internal) |-> internal[Len(internal) + 1 - k]]))

\* the links pushed to the queue for url, in order
QueuedLinks(base, url, html) ==
  IF Falsy(html) THEN <<>>
  ELSE With(getLinksFromHTML(html.text, url), LAMBDA links :
       IF NormalizeThrows(links) THEN <<>> ELSE InternalLinks(base, links))

(***************************************************************************)
(* processURL up to its first suspension point (await fetchPage(url)).     *)
(* d carries the inProgress set, the batch's promises and the fetch calls. *)
(***************************************************************************)
\* variant: the skip test looks at visited only
processURLStart_NoInProgressCheck(url, d) ==
  With(normalizeURL(url), LAMBDA normalizedURL :
  IF normalizedURL.threw
    THEN [d EXCEPT !.tasks = Append(@, [url |-> url, key |-> normalizedURL.value,
                                        state |-> "rejected", fetch |-> 0])]
  ELSE IF normalizedURL.value \in visited
    THEN [d EXCEPT !.tasks = Append(@, [url |-> url, key |-> normalizedURL.value,
                                        state |-> "fulfilled", fetch |-> 0])]
  ELSE IF ~isSameSubdomain(startURL, url)
    THEN [d EXCEPT !.tasks = Append(@, [url |-> url, key |-> normalizedURL.value,
                                        state |-> "fulfilled", fetch |-> 0])]
  ELSE [inProgress |-> d.inProgress \cup {normalizedURL.value},
        fetches    |-> Append(d.fetches, [url |-> url, html |-> Pending]),
        tasks      |-> Append(d.tasks, [url |-> url, key |-> normalizedURL.value,
                                        state |-> "pending",
                                        fetch |-> Len(d.fetches) + 1])])

\* variant: the skip test looks at inProgress only
processURLStart_NoVisitedCheck(url, d) ==
  With(normalizeURL(url), LAMBDA normalizedURL :
  IF normalizedURL.threw
    THEN [d EXCEPT !.tasks = Append(@, [url |-> url, key |-> normalizedURL.value,
                                        state |-> "rejected", fetch |-> 0])]
  ELSE IF normalizedURL.value \in d.inProgress
    THEN [d EXCEPT !.tasks = Append(@, [url |-> url, key |-> normalizedURL.value,
                                        state |-> "fulfilled", fetch |-> 0])]
  ELSE IF ~isSameSubdomain(startURL, url)
    THEN [d EXCEPT !.tasks = Append(@, [url |-> url, key |-> normalizedURL.value,
                                        state |-> "fulfilled", fetch |-> 0])]
  ELSE [inProgress |-> d.inProgress \cup {normalizedURL.value},
        fetches    |-> Append(d.fetches, [url |-> url, html |-> Pending]),
        tasks      |-> Append(d.tasks, [url |-> url, key |-> normalizedURL.value,
                                        state |-> "pending",
                                        fetch |-> Len(d.fetches) + 1])])

\* variant: the skip test looks up the raw URL string
processURLStart_RawKeyCheck(url, d) ==
  With(normalizeURL(url), LAMBDA normalizedURL :
  IF normalizedURL.threw
    THEN [d EXCEPT !.tasks = Append(@, [url |-> url, key |-> normalizedURL.value,
                                        state |-> "rejected", fetch |-> 0])]
  ELSE IF url \in visited \/ url \in d.inProgress
    THEN [d EXCEPT !.tasks = Append(@, [url |-> url, key |-> normalizedURL.value,
                                        state |-> "fulfilled", fetch |-> 0])]
  ELSE IF ~isSameSubdomain(startURL, url)
    THEN [d EXCEPT !.tasks = Append(@, [url |-> url, key |-> normalizedURL.value,
                                        state |-> "fulfilled", fetch |-> 0])]
  ELSE [inProgress |-> d.inProgress \cup {normalizedURL.value},
        fetches    |-> Append(d.fetches, [url |-> url, html |-> Pending]),
        tasks      |-> Append(d.tasks, [url |-> url, key |-> normalizedURL.value,
                                        state |-> "pending",
                                        fetch |-> Len(d.fetches) + 1])])

\* variant: the skip test is separated from inProgress.add by an await, so
\* every task of a batch tests the set as it was before the batch
processURLStart_StaleInProgress(url, d) ==
  With(normalizeURL(url), LAMBDA normalizedURL :
  IF normalizedURL.threw
    THEN [d EXCEPT !.tasks = Append(@, [url |-> url, key |-> normalizedURL.value,
                                        state |-> "rejected", fetch |-> 0])]
  ELSE IF normalizedURL.value \in visited \/ normalizedURL.value \in inProgress
    THEN [d EXCEPT !.tasks = Append(@, [url |-> url, key |-> normalizedURL.value,
                                        state |-> "fulfilled", fetch |-> 0])]
  ELSE IF ~isSameSubdomain(startURL, url)
    THEN [d EXCEPT !.tasks = Append(@, [url |-> url, key |-> normalizedURL.value,
                                        state |-> "fulfilled", fetch |-> 0])]
  ELSE [inProgress |-> d.inProgress \cup {normalizedURL.value},
        fetches    |-> Append(d.fetches, [url |-> url, html |-> Pending]),
        tasks      |-> Append(d.tasks, [url |-> url, key |-> normalizedURL.value,
                                        state |-> "pending",
                                        fetch |-> Len(d.fetches) + 1])])

\* variant: the skip branch marks the key in flight before it returns
processURLStart_SkipMarksInFlight(url, d) ==
  With(normalizeURL(url), LAMBDA normalizedURL :
  IF normalizedURL.threw
    THEN [d EXCEPT !.tasks = Append(@, [url |-> url, key |-> normalizedURL.value,
                                        state |-> "rejected", fetch |-> 0])]
  ELSE IF normalizedURL.value \in visited \/ normalizedURL.value \in d.inProgress
    THEN [d EXCEPT !.inProgress = @ \cup {normalizedURL.value},
                   !.tasks = Append(@, [url |-> url, key |-> normalizedURL.value,
                                        state |-> "fulfilled", fetch |-> 0])]
  ELSE IF ~isSameSubdomain(startURL, url)
    THEN [d EXCEPT !.tasks = Append(@, [url |-> url, key |-> normalizedURL.value,
                                        state |-> "fulfilled", fetch |-> 0])]
  ELSE [inProgress |-> d.inProgress \cup {normalizedURL.value},
        fetches    |-> Append(d.fetches, [url |-> url, html |-> Pending]),
        tasks      |-> Append(d.tasks, [url |-> url, key |-> normalizedURL.value,
                                        state |-> "pending",
                                        fetch |-> Len(d.fetches) + 1])])

\* variant: the promise of a skipped URL never settles
processURLStart_SkipNeverSettles(url, d) ==
  With(normalizeURL(url), LAMBDA normalizedURL :
  IF normalizedURL.threw
    THEN [d EXCEPT !.tasks = Append(@, [url |-> url, key |-> normalizedURL.value,
                                        state |-> "rejected", fetch |-> 0])]
  ELSE IF normalizedURL.value \in visited \/ normalizedURL.value \in d.inProgress
    THEN [d EXCEPT !.tasks = Append(@, [url |-> url, key |-> normalizedURL.value,
                                        state |-> "pending", fetch |-> 0])]
  ELSE IF ~isSameSubdomain(startURL, url)
    THEN [d EXCEPT !.tasks = Append(@, [url |-> url, key |-> normalizedURL.value,
                                        state |-> "fulfilled", fetch |-> 0])]
  ELSE [inProgress |-> d.inProgress \cup {normalizedURL.value},
        fetches    |-> Append(d.fetches, [url |-> url, html |-> Pending]),
        tasks      |-> Append(d.tasks, [url |-> url, key |-> normalizedURL.value,
                                        state |-> "pending",
                                        fetch |-> Len(d.fetches) + 1])])

processURLStart(url, d) ==
  With(normalizeURL(url), LAMBDA normalizedURL :
  IF normalizedURL.threw
    THEN [d EXCEPT !.tasks = Append(@, [url |-> url, key |-> normalizedURL.value,
                                        state |-> "rejected", fetch |-> 0])]
  ELSE IF normalizedURL.value \in visited \/ normalizedURL.value \in d.inProgress
    THEN [d EXCEPT !.tasks = Append(@, [url |-> url, key |-> normalizedURL.value,
                                        state |-> "fulfilled", fetch |-> 0])]
  ELSE IF ~isSameSubdomain(startURL, url)
    THEN [d EXCEPT !.tasks = Append(@, [url |-> url, key |-> normalizedURL.value,
                                        state |-> "fulfilled", fetch |-> 0])]
  ELSE [inProgress |-> d.inProgress \cup {normalizedURL.value},
        fetches    |-> Append(d.fetches, [url |-> url, html |-> Pending]),
        tasks      |-> Append(d.tasks, [url |-> url, key |-> normalizedURL.value,
                                        state |-> "pending",
                                        fetch |-> Len(d.fetches) + 1])])

\* urlsToProcess.map(url => processURL(url)): the synchronous parts, in order
RECURSIVE DispatchAll(_, _)
DispatchAll(urls, d) ==
  IF urls = <<>> THEN d
  ELSE With(processURLStart(Head(urls), d), LAMBDA started :
       DispatchAll(Tail(urls), started))

\* variant: the timer is started after every iteration
MustDelay_Always(q, inP) == TRUE

\* the rate-limiting test at the end of a loop iteration
MustDelay(q, inP) == Len(q) > 0 \/ Cardinality(inP) > 0

(***************************************************************************)
(* Actions: the code between two suspension points of crawl.               *)
(***************************************************************************)
\* variant: processQueue does not set the flag
EnterProcessQueue_FlagNotSet ==
  /\ pc = "call"
  /\ IF isProcessing
     THEN /\ pc' = "done"
          /\ outcome' = "resolved"
          /\ UNCHANGED isProcessing
     ELSE /\ pc' = "loop"
          /\ UNCHANGED <<isProcessing, outcome>>
  /\ UNCHANGED <<startURL, maxConcurrency, rateLimitMs, results, visited,
                 queue, inProgress, tasks, fetches, rounds, delays, sleptMs,
                 outside>>

\* crawl calls processQueue
EnterProcessQueue ==
  /\ pc = "call"
  /\ IF isProcessing
     THEN /\ pc' = "done"
          /\ outcome' = "resolved"
          /\ UNCHANGED isProcessing
     ELSE /\ isProcessing' = TRUE
          /\ pc' = "loop"
          /\ UNCHANGED outcome
  /\ UNCHANGED <<startURL, maxConcurrency, rateLimitMs, results, visited,
                 queue, inProgress, tasks, fetches, rounds, delays, sleptMs,
                 outside>>

\* one iteration of the while loop up to its first await: admission and the
\* synchronous part of every processURL of the batch
Admit ==
  /\ pc = "loop"
  /\ Len(queue) > 0 \/ Cardinality(inProgress) > 0
  /\ LET availableSlots == maxConcurrency - Cardinality(inProgress)
         spliced == Splice(queue, SpliceCount(queue, availableSlots))
         urlsToProcess == spliced.removed
         rest == spliced.remaining
     IN /\ queue' = rest
        /\ rounds' = rounds + 1
        /\ IF Len(urlsToProcess) > 0
           THEN /\ \E d \in {DispatchAll(urlsToProcess,
                               [inProgress |-> inProgress, fetches |-> fetches,
                                tasks |-> <<>>])} :
                     /\ inProgress' = d.inProgress
                     /\ fetches' = d.fetches
                     /\ tasks' = d.tasks
                /\ pc' = "join"
                /\ UNCHANGED delays
           ELSE /\ UNCHANGED <<inProgress, fetches, tasks>>
                /\ IF MustDelay(rest, inProgress)
                   THEN pc' = "sleep" /\ delays' = delays + 1
                   ELSE pc' = "loop" /\ UNCHANGED delays
  /\ UNCHANGED <<startURL, maxConcurrency, rateLimitMs, results, visited,
                 isProcessing, sleptMs, outcome, outside>>

\* variant: the finally block does not delete the key from inProgress
FetchSettles_KeepsInFlight(i, response) ==
  /\ pc = "join"
  /\ tasks[i].state = "pending"
  /\ tasks[i].fetch \in 1..Len(fetches)
  /\ fetches[tasks[i].fetch].html.pending
  /\ \E html \in {fetchPage(response)} :
     LET url == tasks[i].url
         normalizedURL == tasks[i].key
     IN /\ fetches' = [fetches EXCEPT ![tasks[i].fetch].html = html]
        /\ results' = Append(results, CrawlResultOf(url, normalizedURL, html))
        /\ queue' = queue \o QueuedLinks(startURL, url, html)
        /\ visited' = visited \cup {normalizedURL}
        /\ tasks' = [tasks EXCEPT ![i].state = "fulfilled"]
  /\ UNCHANGED <<startURL, maxConcurrency, rateLimitMs, isProcessing, pc,
                 rounds, delays, sleptMs, outcome, outside, inProgress>>

\* variant: a URL whose fetch failed is not marked visited
FetchSettles_FailureNotVisited(i, response) ==
  /\ pc = "join"
  /\ tasks[i].state = "pending"
  /\ tasks[i].fetch \in 1..Len(fetches)
  /\ fetches[tasks[i].fetch].html.pending
  /\ \E html \in {fetchPage(response)} :
     LET url == tasks[i].url
         normalizedURL == tasks[i].key
     IN /\ fetches' = [fetches EXCEPT ![tasks[i].fetch].html = html]
        /\ results' = Append(results, CrawlResultOf(url, normalizedURL, html))
        /\ queue' = queue \o QueuedLinks(startURL, url, html)
        /\ visited' = IF Falsy(html) THEN visited ELSE visited \cup {normalizedURL}
        /\ inProgress' = inProgress \ {normalizedURL}
        /\ tasks' = [tasks EXCEPT ![i].state = "fulfilled"]
  /\ UNCHANGED <<startURL, maxConcurrency, rateLimitMs, isProcessing, pc,
                 rounds, delays, sleptMs, outcome, outside>>

\* fetch of task i settles with response: processURL runs from the await to
\* the end of its finally block
FetchSettles(i, response) ==
  /\ pc = "join"
  /\ tasks[i].state = "pending"
  /\ tasks[i].fetch \in 1..Len(fetches)
  /\ fetches[tasks[i].fetch].html.pending
  /\ \E html \in {fetchPage(response)} :
     LET url == tasks[i].url
         normalizedURL == tasks[i].key
     IN /\ fetches' = [fetches EXCEPT ![tasks[i].fetch].html = html]
        /\ results' = Append(results, CrawlResultOf(url, normalizedURL, html))
        /\ queue' = queue \o QueuedLinks(startURL, url, html)
        /\ visited' = visited \cup {normalizedURL}
        /\ inProgress' = inProgress \ {normalizedURL}
        /\ tasks' = [tasks EXCEPT ![i].state = "fulfilled"]
  /\ UNCHANGED <<startURL, maxConcurrency, rateLimitMs, isProcessing, pc,
                 rounds, delays, sleptMs, outcome, outside>>

\* variant: the batch is awaited with a race, which resolves with the first
\* member that settles
BatchSettled_FirstSettled ==
  /\ pc = "join"
  /\ \E i \in 1..Len(tasks) : tasks[i].state # "pending"
  /\ IF MustDelay(queue, inProgress)
     THEN pc' = "sleep" /\ delays' = delays + 1
     ELSE pc' = "loop" /\ UNCHANGED delays
  /\ UNCHANGED <<startURL, maxConcurrency, rateLimitMs, results, visited,
                 queue, inProgress, isProcessing, tasks, fetches, rounds,
                 sleptMs, outcome, outside>>

\* Promise.allSettled resolves; the rate-limiting test follows
BatchSettled ==
  /\ pc = "join"
  /\ \A i \in 1..Len(tasks) : tasks[i].state # "pending"
  /\ IF MustDelay(queue, inProgress)
     THEN pc' = "sleep" /\ delays' = delays + 1
     ELSE pc' = "loop" /\ UNCHANGED delays
  /\ UNCHANGED <<startURL, maxConcurrency, rateLimitMs, results, visited,
                 queue, inProgress, isProcessing, tasks, fetches, rounds,
                 sleptMs, outcome, outside>>

\* the setTimeout(resolve, rateLimitMs) timer fires
TimerFires ==
  /\ pc = "sleep"
  /\ pc' = "loop"
  /\ sleptMs' = sleptMs + rateLimitMs
  /\ UNCHANGED <<startURL, maxConcurrency, rateLimitMs, results, visited,
                 queue, inProgress, isProcessing, tasks, fetches, rounds,
                 delays, outcome, outside>>

\* variant: the while condition tests inProgress.size only
Return_InProgressOnly ==
  /\ pc = "loop"
  /\ ~(Cardinality(inProgress) > 0)
  /\ isProcessing' = FALSE
  /\ pc' = "done"
  /\ outcome' = "resolved"
  /\ UNCHANGED <<startURL, maxConcurrency, rateLimitMs, results, visited,
                 queue, inProgress, tasks, fetches, rounds, delays, sleptMs,
                 outside>>

\* the while condition is false: processQueue returns, crawl resolves
Return ==
  /\ pc = "loop"
  /\ ~(Len(queue) > 0 \/ Cardinality(inProgress) > 0)
  /\ isProcessing' = FALSE
  /\ pc' = "done"
  /\ outcome' = "resolved"
  /\ UNCHANGED <<startURL, maxConcurrency, rateLimitMs, results, visited,
                 queue, inProgress, tasks, fetches, rounds, delays, sleptMs,
                 outside>>

Next ==
  \/ EnterProcessQueue
  \/ Admit
  \/ \E i \in 1..Len(tasks) : \E response \in Responses : FetchSettles(i, response)
  \/ BatchSettled
  \/ TimerFires
  \/ Return

Spec == Init /\ [][Next]_vars

\* every fetch eventually settles, every timer fires and every continuation
\* that is ready to run is run: the crawl does not stop while a step of it
\* is possible
FairSpec == Spec /\ WF_vars(Next)

(***************************************************************************)
(* Direct calls of the exported functions normalizeURL and isSameSubdomain, *)
(* as the unit tests make them.                                            *)
(***************************************************************************)
\* longest path, in tokens, of the URL strings passed to the functions
MaxPath == 3

\* the sequences over S of length n or less
SeqsUpTo(S, n) == UNION {[1..k -> S] : k \in 0..n}

\* nothing, or one token of S
Optional(S) == {<<>>} \cup {<<t>> : t \in S}

\* strings that new URL rejects: the empty string, text, a scheme without
\* a host, a protocol-relative and a path-relative reference
Malformed ==
  {<<>>, NotAURL, <<"https:", "//">>, <<"//", "h.com">>, <<"/", "a">>}

\* the strings passed to the functions: absolute URLs with or without a
\* port, a path, a query and a fragment, and malformed strings
URLStrings ==
  {<<protocol, "//", hostname>> \o port \o path \o search \o hash :
     protocol \in HttpProtocols, hostname \in HostNames,
     port \in Optional(Ports),
     path \in {<<>>} \cup {<<"/">> \o rest : rest \in SeqsUpTo(PathTokens, MaxPath - 1)},
     search \in Optional(Queries), hash \in Optional(Fragments)}
    \cup Malformed

\* the strings paired with every URL string in a call of isSameSubdomain
BaseStrings == {Root, BlogA, <<"http:", "//", "h.com", ":8080", "/", "a", "/">>, NotAURL, <<>>}

FunctionInit ==
  /\ call \in [fn : {"normalizeURL"}, args : {<<u>> : u \in URLStrings},
               returned : {<<>>}]
            \cup [fn : {"isSameSubdomain"},
                  args : (BaseStrings \X URLStrings) \cup (URLStrings \X BaseStrings),
                  returned : {<<>>}]
  /\ startURL = Root
  /\ maxConcurrency = 1
  /\ rateLimitMs = 0
  /\ results = <<>>
  /\ visited = {}
  /\ queue = <<>>
  /\ inProgress = {}
  /\ isProcessing = FALSE
  /\ pc = "idle"
  /\ tasks = <<>>
  /\ fetches = <<>>
  /\ rounds = 0
  /\ delays = 0
  /\ sleptMs = 0
  /\ outcome = "pending"
  /\ api = NoRequest
  /\ suspended = NoInvocation
  /\ site = NoSite
  /\ stream = NoStream
  /\ batches = NoBatch
  /\ app = NoApp

\* normalizeURL is called on the argument, and then on what it returned
CallNormalizeURL ==
  /\ call.fn = "normalizeURL"
  /\ Len(call.returned) < 2
  /\ \A k \in 1..Len(call.returned) : ~call.returned[k].threw
  /\ \E urlString \in {IF call.returned = <<>> THEN call.args[1]
                       ELSE Last(call.returned).value} :
       call' = [call EXCEPT !.returned = Append(@, normalizeURL(urlString))]
  /\ UNCHANGED <<crawlVars, api, suspended, site, stream, batches, app>>

\* isSameSubdomain is called on the two arguments
CallIsSameSubdomain ==
  /\ call.fn = "isSameSubdomain"
  /\ call.returned = <<>>
  /\ call' = [call EXCEPT !.returned = <<isSameSubdomain(call.args[1], call.args[2])>>]
  /\ UNCHANGED <<crawlVars, api, suspended, site, stream, batches, app>>

FunctionNext == CallNormalizeURL \/ CallIsSameSubdomain

FunctionSpec == FunctionInit /\ [][FunctionNext]_vars

(***************************************************************************)
(* The handler of POST /api/crawl (packages/api/src/index.ts).  The crawl  *)
(* it awaits is the crawler module, or the mock the handler's tests put in *)
(* its place.                                                              *)
(***************************************************************************)
\* the options the handler passes to crawl
ApiMaxConcurrency == 5

ApiRateLimitMs == 100

\* req.body.url: absent, the empty string, strings that are no absolute
\* URL, and absolute URLs
RequestURLs ==
  {[defined |-> FALSE, value |-> <<>>]}
    \cup [defined : {TRUE},
          value : {<<>>, NotAURL, <<"/", "a">>, Root, PageASlash}]

\* what a mocked crawl resolves with
MockResolved ==
  { <<>>,
    << [url |-> Root, links |-> <<>>] >>,
    << [url |-> Root, links |-> <<PageB>>], [url |-> PageB, links |-> <<>>] >> }

\* what a mocked crawl rejects with: an Error and a value that is no Error
MockRejected ==
  { [isError |-> TRUE, message |-> "Network error"],
    [isError |-> FALSE, message |-> "String error"] }

\* variant: the format of the URL is not validated
ValidateRequest_NoFormatCheck(url) ==
  IF ~url.defined \/ url.value = <<>>
  THEN [ok |-> FALSE, status |-> 400, body |-> [error |-> "URL is required"]]
  ELSE [ok |-> TRUE, status |-> 0, body |-> [error |-> ""]]

\* the two validation steps of the handler: the response that ends the
\* request, or ok
ValidateRequest(url) ==
  IF ~url.defined \/ url.value = <<>>
  THEN [ok |-> FALSE, status |-> 400, body |-> [error |-> "URL is required"]]
  ELSE IF ~CanParse(url.value)
  THEN [ok |-> FALSE, status |-> 400, body |-> [error |-> "Invalid URL format"]]
  ELSE [ok |-> TRUE, status |-> 0, body |-> [error |-> ""]]

\* variant: the catch block sends the error without res.status(500)
CrawlResponse_ErrorWithoutStatus(settled, list, reason) ==
  IF settled = "resolved"
  THEN [status |-> 200,
        body |-> [success |-> TRUE, results |-> list,
                  message |-> <<"Crawl complete! Found ", Len(list), " pages.">>]]
  ELSE [status |-> 200,
        body |-> [error |-> IF reason.isError THEN reason.message
                            ELSE "Unknown error occurred"]]

\* the response sent once the awaited crawl has settled: res.json(...) of
\* the try block, or res.status(500).json(...) of the catch block
CrawlResponse(settled, list, reason) ==
  IF settled = "resolved"
  THEN [status |-> 200,
        body |-> [success |-> TRUE, results |-> list,
                  message |-> <<"Crawl complete! Found ", Len(list), " pages.">>]]
  ELSE [status |-> 500,
        body |-> [error |-> IF reason.isError THEN reason.message
                            ELSE "Unknown error occurred"]]

ApiInit ==
  /\ api \in [url : RequestURLs, crawler : {"module", "mock"},
              at : {"received"}, crawlCalls : {<<>>}, reason : {NoReason},
              responses : {<<>>}]
  /\ startURL = <<>>
  /\ maxConcurrency = ApiMaxConcurrency
  /\ rateLimitMs = ApiRateLimitMs
  /\ results = <<>>
  /\ visited = {}
  /\ queue = <<>>
  /\ inProgress = {}
  /\ isProcessing = FALSE
  /\ pc = "idle"
  /\ tasks = <<>>
  /\ fetches = <<>>
  /\ rounds = 0
  /\ delays = 0
  /\ sleptMs = 0
  /\ outcome = "pending"
  /\ call = NoCall
  /\ suspended = NoInvocation
  /\ site = NoSite
  /\ stream = NoStream
  /\ batches = NoBatch
  /\ app = NoApp

\* the handler from the arrival of the request to its first await: it
\* answers 400, or calls crawl, which sets up its state
HandleRequest ==
  /\ api.at = "received"
  /\ \E checked \in {ValidateRequest(api.url)} :
       IF ~checked.ok
       THEN /\ api' = [api EXCEPT
                         !.responses = Append(@, [status |-> checked.status,
                                                  body |-> checked.body]),
                         !.at = "responded"]
            /\ UNCHANGED crawlVars
       ELSE /\ api' = [api EXCEPT
                         !.crawlCalls = Append(@, [url |-> api.url.value,
                                                   maxConcurrency |-> ApiMaxConcurrency,
                                                   rateLimitMs |-> ApiRateLimitMs]),
                         !.at = "awaiting"]
            /\ startURL' = api.url.value
            /\ maxConcurrency' = ApiMaxConcurrency
            /\ rateLimitMs' = ApiRateLimitMs
            /\ results' = <<>>
            /\ visited' = {}
            /\ queue' = <<api.url.value>>
            /\ inProgress' = {}
            /\ isProcessing' = FALSE
            /\ pc' = IF api.crawler = "mock" THEN "mock" ELSE "call"
            /\ outcome' = "pending"
            /\ UNCHANGED <<tasks, fetches, rounds, delays, sleptMs>>
  /\ UNCHANGED <<call, suspended, site, stream, batches, app>>

\* the mocked crawl resolves with a list or rejects with a value
MockedCrawlSettles ==
  /\ pc = "mock"
  /\ \/ \E list \in MockResolved :
          /\ results' = list
          /\ outcome' = "resolved"
          /\ UNCHANGED api
     \/ \E reason \in MockRejected :
          /\ outcome' = "rejected"
          /\ api' = [api EXCEPT !.reason = reason]
          /\ UNCHANGED results
  /\ pc' = "done"
  /\ UNCHANGED <<startURL, maxConcurrency, rateLimitMs, visited, queue,
                 inProgress, isProcessing, tasks, fetches, rounds, delays,
                 sleptMs, call, suspended, site, stream, batches, app>>

\* the handler after await crawl(...): the rest of the try block, or the
\* catch block
RespondAfterCrawl ==
  /\ api.at = "awaiting"
  /\ pc = "done"
  /\ api' = [api EXCEPT
               !.responses = Append(@, CrawlResponse(outcome, results, api.reason)),
               !.at = "responded"]
  /\ UNCHANGED <<crawlVars, call, suspended, site, stream, batches, app>>

ApiNext ==
  \/ HandleRequest
  \/ EnterProcessQueue
  \/ Admit
  \/ \E i \in 1..Len(tasks) : \E response \in Responses : FetchSettles(i, response)
  \/ BatchSettled
  \/ TimerFires
  \/ Return
  \/ MockedCrawlSettles
  \/ RespondAfterCrawl

ApiSpec == ApiInit /\ [][ApiNext]_vars

(***************************************************************************)
(* Two crawl invocations on one event loop, as for two requests that are   *)
(* served at the same time.  The state of crawl is declared inside the     *)
(* function, so each invocation has its own; the site answers every fetch  *)
(* of a page in the same way.                                              *)
(***************************************************************************)
\* the pages of the site, by canonical key: the root links to two pages,
\* the first links back to the root, the second to the first under two
\* spellings and to another host
Site(key) ==
  IF key = Root THEN [kind |-> "html", body |-> << <<"/", "a">>, PageB >>]
  ELSE IF key = <<"https:", "//", "h.com", "/", "a">>
    THEN [kind |-> "html", body |-> << <<"/">> >>]
  ELSE IF key = PageB
    THEN [kind |-> "html", body |-> << <<"/", "a">>, BlogA, PageASlash >>]
  ELSE [kind |-> "status", body |-> <<>>]

\* the state of the running invocation, as kept while another one runs
Invocation ==
  [exists |-> TRUE, startURL |-> startURL, maxConcurrency |-> maxConcurrency,
   rateLimitMs |-> rateLimitMs, results |-> results, visited |-> visited,
   queue |-> queue, inProgress |-> inProgress, isProcessing |-> isProcessing,
   pc |-> pc, tasks |-> tasks, fetches |-> fetches, rounds |-> rounds,
   delays |-> delays, sleptMs |-> sleptMs, outcome |-> outcome]

ConcurrentInit ==
  /\ startURL \in {Root, PageASlash}
  /\ maxConcurrency \in 1..MaxConc
  /\ rateLimitMs = DefaultRateLimitMs
  /\ results = <<>>
  /\ visited = {}
  /\ queue = <<startURL>>
  /\ inProgress = {}
  /\ isProcessing = FALSE
  /\ pc = "call"
  /\ tasks = <<>>
  /\ fetches = <<>>
  /\ rounds = 0
  /\ delays = 0
  /\ sleptMs = 0
  /\ outcome = "pending"
  /\ call = NoCall
  /\ api = NoRequest
  /\ suspended \in [exists : {TRUE}, startURL : {Root, PageASlash},
                    maxConcurrency : 1..MaxConc,
                    rateLimitMs : {DefaultRateLimitMs}, results : {<<>>},
                    visited : {{}}, queue : {<<>>}, inProgress : {{}},
                    isProcessing : {FALSE}, pc : {"call"}, tasks : {<<>>},
                    fetches : {<<>>}, rounds : {0}, delays : {0},
                    sleptMs : {0}, outcome : {"pending"}]
  /\ site = NoSite
  /\ stream = NoStream
  /\ batches = NoBatch
  /\ app = NoApp

\* the other invocation is called: its state is constructed
CallSuspended ==
  /\ suspended.exists
  /\ suspended.pc = "call"
  /\ suspended.queue = <<>>
  /\ suspended' = [suspended EXCEPT !.queue = <<suspended.startURL>>]
  /\ UNCHANGED <<crawlVars, call, api, site, stream, batches, app>>

\* variant: the visited set is declared outside crawl and shared by the
\* invocations
SwitchInvocation_SharedVisited ==
  /\ suspended.exists
  /\ suspended.queue # <<>> \/ suspended.pc # "call"
  /\ pc \in {"call", "join", "sleep", "done"}
  /\ suspended' = Invocation
  /\ startURL' = suspended.startURL
  /\ maxConcurrency' = suspended.maxConcurrency
  /\ rateLimitMs' = suspended.rateLimitMs
  /\ results' = suspended.results
  /\ visited' = visited
  /\ queue' = suspended.queue
  /\ inProgress' = suspended.inProgress
  /\ isProcessing' = suspended.isProcessing
  /\ pc' = suspended.pc
  /\ tasks' = suspended.tasks
  /\ fetches' = suspended.fetches
  /\ rounds' = suspended.rounds
  /\ delays' = suspended.delays
  /\ sleptMs' = suspended.sleptMs
  /\ outcome' = suspended.outcome
  /\ UNCHANGED <<call, api, site, stream, batches, app>>

\* the running invocation is at an await, or has not started or has
\* returned, and the event loop runs a continuation of the other one
SwitchInvocation ==
  /\ suspended.exists
  /\ suspended.queue # <<>> \/ suspended.pc # "call"
  /\ pc \in {"call", "join", "sleep", "done"}
  /\ suspended' = Invocation
  /\ startURL' = suspended.startURL
  /\ maxConcurrency' = suspended.maxConcurrency
  /\ rateLimitMs' = suspended.rateLimitMs
  /\ results' = suspended.results
  /\ visited' = suspended.visited
  /\ queue' = suspended.queue
  /\ inProgress' = suspended.inProgress
  /\ isProcessing' = suspended.isProcessing
  /\ pc' = suspended.pc
  /\ tasks' = suspended.tasks
  /\ fetches' = suspended.fetches
  /\ rounds' = suspended.rounds
  /\ delays' = suspended.delays
  /\ sleptMs' = suspended.sleptMs
  /\ outcome' = suspended.outcome
  /\ UNCHANGED <<call, api, site, stream, batches, app>>

ConcurrentNext ==
  \/ CallSuspended
  \/ SwitchInvocation
  \/ EnterProcessQueue
  \/ Admit
  \/ \E i \in 1..Len(tasks) : FetchSettles(i, Site(tasks[i].key))
  \/ BatchSettled
  \/ TimerFires
  \/ Return

ConcurrentSpec == ConcurrentInit /\ [][ConcurrentNext]_vars

(***************************************************************************)
(* Two crawls of one site from the same start URL, each with its own       *)
(* maxConcurrency and its own completion order.  The site answers a fetch  *)
(* by the URL string that is fetched, as the mocked fetch of the tests.    *)
(***************************************************************************)
PageAB == <<"https:", "//", "h.com", "/", "a", "/", "b">>
PageABSlash == <<"https:", "//", "h.com", "/", "a", "/", "b", "/">>

\* the URL strings the site has an answer for
SiteURLs ==
  {Root, <<"https:", "//", "h.com", "/">>, <<"https:", "//", "h.com", "/", "a">>,
   PageB, PageAB, PageABSlash}

\* the root links to /a and /b, /a links to /a/b and /b to /a/b/, and /a/b
\* links to the root; the site answers /a/b/ as it answers /a/b
SpellingBlindSite ==
  [url \in SiteURLs |->
     IF url \in {Root, <<"https:", "//", "h.com", "/">>}
       THEN [kind |-> "html", body |-> << <<"/", "a">>, PageB >>]
     ELSE IF url = <<"https:", "//", "h.com", "/", "a">>
       THEN [kind |-> "html", body |-> << PageAB >>]
     ELSE IF url = PageB
       THEN [kind |-> "html", body |-> << PageABSlash >>]
     ELSE [kind |-> "html", body |-> << <<"/">> >>]]

\* the same site, but with no page at /a/b/: the fetch gives a 404 status
SpellingSensitiveSite ==
  [SpellingBlindSite EXCEPT ![PageABSlash] = [kind |-> "status", body |-> <<>>]]

Sites == {SpellingBlindSite, SpellingSensitiveSite}

\* the response to fetch(url)
SiteResponse(url) ==
  IF url \in DOMAIN site THEN site[url] ELSE [kind |-> "status", body |-> <<>>]

SiteInit ==
  /\ startURL = Root
  /\ maxConcurrency \in 1..MaxConc
  /\ rateLimitMs = DefaultRateLimitMs
  /\ results = <<>>
  /\ visited = {}
  /\ queue = <<startURL>>
  /\ inProgress = {}
  /\ isProcessing = FALSE
  /\ pc = "call"
  /\ tasks = <<>>
  /\ fetches = <<>>
  /\ rounds = 0
  /\ delays = 0
  /\ sleptMs = 0
  /\ outcome = "pending"
  /\ call = NoCall
  /\ api = NoRequest
  /\ suspended \in [exists : {TRUE}, startURL : {Root},
                    maxConcurrency : 1..MaxConc,
                    rateLimitMs : {DefaultRateLimitMs}, results : {<<>>},
                    visited : {{}}, queue : {<<>>}, inProgress : {{}},
                    isProcessing : {FALSE}, pc : {"call"}, tasks : {<<>>},
                    fetches : {<<>>}, rounds : {0}, delays : {0},
                    sleptMs : {0}, outcome : {"pending"}]
  /\ site \in Sites
  /\ stream = NoStream
  /\ batches = NoBatch
  /\ app = NoApp

SiteNext ==
  \/ CallSuspended
  \/ SwitchInvocation
  \/ EnterProcessQueue
  \/ Admit
  \/ \E i \in 1..Len(tasks) : FetchSettles(i, SiteResponse(tasks[i].url))
  \/ BatchSettled
  \/ TimerFires
  \/ Return

SiteSpec == SiteInit /\ [][SiteNext]_vars

(***************************************************************************)
(* OptimizedCrawler.crawlStream (packages/api/src/index.ts).  The state of *)
(* the call is kept in the variables of a crawl invocation; the options of *)
(* the instance that crawl does not have, the page counter and the result  *)
(* stream are the fields of stream.                                        *)
(***************************************************************************)
\* largest maxPages option of an OptimizedCrawler
MaxPages == 2

\* options.rateLimitMs || 50
StreamRateLimitMs == 50

\* resultStream.push(null)
EndMarker == [end |-> TRUE, url |-> <<>>, links |-> <<>>]

\* OptimizedCrawler.extractLinks: hrefs that start with '#', 'javascript:'
\* or 'mailto:' are skipped, the others are resolved against baseURL
RECURSIVE extractLinks(_, _)
extractLinks(html, baseURL) ==
  IF html = <<>> THEN <<>>
  ELSE With(extractLinks(Tail(html), baseURL), LAMBDA rest :
       IF Head(html) = <<>> THEN rest
       ELSE IF Head(html)[1] \in Fragments \cup OtherProtocols THEN rest
       ELSE With(ResolveURL(Head(html), baseURL), LAMBDA absoluteURL :
            IF absoluteURL.threw THEN rest
            ELSE IF absoluteURL.url.protocol \notin HttpProtocols THEN rest
            ELSE <<Href(absoluteURL.url)>> \o rest))

\* OptimizedCrawler.processURL up to await fetch(url)
streamProcessURLStart(url, d) ==
  With(normalizeURL(url), LAMBDA normalizedURL :
  IF normalizedURL.threw
    THEN [d EXCEPT !.tasks = Append(@, [url |-> url, key |-> normalizedURL.value,
                                        state |-> "rejected", fetch |-> 0,
                                        html |-> <<>>])]
  ELSE IF normalizedURL.value \in visited \/ normalizedURL.value \in d.inProgress
    THEN [d EXCEPT !.tasks = Append(@, [url |-> url, key |-> normalizedURL.value,
                                        state |-> "fulfilled", fetch |-> 0,
                                        html |-> <<>>])]
  ELSE [inProgress |-> d.inProgress \cup {normalizedURL.value},
        fetches    |-> Append(d.fetches, [url |-> url, html |-> Pending]),
        tasks      |-> Append(d.tasks, [url |-> url, key |-> normalizedURL.value,
                                        state |-> "fetching",
                                        fetch |-> Len(d.fetches) + 1,
                                        html |-> <<>>])])

\* urlsToProcess.map(url => this.processURL(...)): the synchronous parts
RECURSIVE StreamDispatchAll(_, _)
StreamDispatchAll(urls, d) ==
  IF urls = <<>> THEN d
  ELSE With(streamProcessURLStart(Head(urls), d), LAMBDA started :
       StreamDispatchAll(Tail(urls), started))

\* the links of a page that processURL pushes to the queue, in order
streamQueuedLinks(url, links) ==
  SelectSeq(links, LAMBDA link :
    /\ isSameSubdomain(url, link)
    /\ normalizeURL(link).value \notin visited
    /\ normalizeURL(link).value \notin inProgress)

\* the condition of the while loop of processBatch
StreamLoopTest ==
  /\ Len(queue) > 0
  /\ Cardinality(inProgress) < maxConcurrency
  /\ stream.processedCount < stream.maxPages

StreamInit ==
  /\ startURL \in StartURLs
  /\ maxConcurrency \in 1..MaxConc
  /\ rateLimitMs = StreamRateLimitMs
  /\ results = <<>>
  /\ visited = {}
  /\ queue = <<startURL>>
  /\ inProgress = {}
  /\ isProcessing = FALSE
  /\ pc = "loop"
  /\ tasks = <<>>
  /\ fetches = <<>>
  /\ rounds = 0
  /\ delays = 0
  /\ sleptMs = 0
  /\ outcome = "pending"
  /\ call = NoCall
  /\ api = NoRequest
  /\ suspended = NoInvocation
  /\ site = NoSite
  /\ stream \in [exists : {TRUE}, maxPages : 1..MaxPages, processedCount : {0},
                 resultStream : {<<>>}]
  /\ batches = NoBatch
  /\ app = NoApp

\* an iteration of the while loop of processBatch up to Promise.allSettled
StreamAdmit ==
  /\ stream.exists
  /\ pc = "loop"
  /\ StreamLoopTest
  /\ LET availableSlots == maxConcurrency - Cardinality(inProgress)
         spliced == Splice(queue, SpliceCount(queue, availableSlots))
     IN /\ queue' = spliced.remaining
        /\ \E d \in {StreamDispatchAll(spliced.removed,
                       [inProgress |-> inProgress, fetches |-> fetches,
                        tasks |-> <<>>])} :
             /\ inProgress' = d.inProgress
             /\ fetches' = d.fetches
             /\ tasks' = d.tasks
        /\ rounds' = rounds + 1
        /\ pc' = "join"
  /\ UNCHANGED <<startURL, maxConcurrency, rateLimitMs, results, visited,
                 isProcessing, delays, sleptMs, outcome, outside>>

\* await fetch(url) of task i settles: a rejection runs the catch and the
\* finally block, a status that is not ok the finally block, and otherwise
\* processURL goes on to await response.text()
StreamFetchSettles(i, response) ==
  /\ stream.exists
  /\ pc = "join"
  /\ tasks[i].state = "fetching"
  /\ fetches' = [fetches EXCEPT ![tasks[i].fetch].html =
                   [null |-> response.kind \in {"neterr", "status"},
                    text |-> response.body, empty |-> response.kind = "blank",
                    pending |-> FALSE]]
  /\ IF response.kind \in {"neterr", "status"}
     THEN /\ tasks' = [tasks EXCEPT ![i].state = "fulfilled"]
          /\ visited' = visited \cup {tasks[i].key}
          /\ inProgress' = inProgress \ {tasks[i].key}
     ELSE /\ tasks' = [tasks EXCEPT ![i].state = "reading",
                                    ![i].html = response.body]
          /\ UNCHANGED <<visited, inProgress>>
  /\ UNCHANGED <<startURL, maxConcurrency, rateLimitMs, results, queue,
                 isProcessing, pc, rounds, delays, sleptMs, outcome, outside>>

\* variant: every result pushed is counted in processedCount
StreamTextSettles_CountsPage(i, ok) ==
  /\ stream.exists
  /\ pc = "join"
  /\ tasks[i].state = "reading"
  /\ IF ok
     THEN \E links \in {extractLinks(tasks[i].html, tasks[i].url)} :
            /\ stream' = [stream EXCEPT !.resultStream =
                            Append(@, [end |-> FALSE, url |-> tasks[i].key,
                                       links |-> [k \in 1..Len(links) |->
                                                    normalizeURL(links[k]).value]]),
                                        !.processedCount = @ + 1]
            /\ queue' = queue \o streamQueuedLinks(tasks[i].url, links)
     ELSE UNCHANGED <<stream, queue>>
  /\ tasks' = [tasks EXCEPT ![i].state = "fulfilled"]
  /\ visited' = visited \cup {tasks[i].key}
  /\ inProgress' = inProgress \ {tasks[i].key}
  /\ UNCHANGED <<startURL, maxConcurrency, rateLimitMs, results, isProcessing,
                 pc, fetches, rounds, delays, sleptMs, outcome, call, api,
                 suspended, site, batches, app>>

\* await response.text() of task i settles: with the text the result is
\* pushed to the stream and the new links to the queue; a rejection runs the
\* catch block; the finally block follows in both cases
StreamTextSettles(i, ok) ==
  /\ stream.exists
  /\ pc = "join"
  /\ tasks[i].state = "reading"
  /\ IF ok
     THEN \E links \in {extractLinks(tasks[i].html, tasks[i].url)} :
            /\ stream' = [stream EXCEPT !.resultStream =
                            Append(@, [end |-> FALSE, url |-> tasks[i].key,
                                       links |-> [k \in 1..Len(links) |->
                                                    normalizeURL(links[k]).value]])]
            /\ queue' = queue \o streamQueuedLinks(tasks[i].url, links)
     ELSE UNCHANGED <<stream, queue>>
  /\ tasks' = [tasks EXCEPT ![i].state = "fulfilled"]
  /\ visited' = visited \cup {tasks[i].key}
  /\ inProgress' = inProgress \ {tasks[i].key}
  /\ UNCHANGED <<startURL, maxConcurrency, rateLimitMs, results, isProcessing,
                 pc, fetches, rounds, delays, sleptMs, outcome, call, api,
                 suspended, site, batches, app>>

\* Promise.allSettled resolves; the rate-limiting test follows
StreamBatchSettled ==
  /\ stream.exists
  /\ pc = "join"
  /\ \A i \in 1..Len(tasks) : tasks[i].state \in {"fulfilled", "rejected"}
  /\ IF Len(queue) > 0 \/ Cardinality(inProgress) > 0
     THEN pc' = "sleep" /\ delays' = delays + 1
     ELSE pc' = "loop" /\ UNCHANGED delays
  /\ UNCHANGED <<startURL, maxConcurrency, rateLimitMs, results, visited,
                 queue, inProgress, isProcessing, tasks, fetches, rounds,
                 sleptMs, outcome, outside>>

\* the while condition is false: the stream is ended if the queue and the
\* in-progress set are empty, and processBatch returns
StreamExit ==
  /\ stream.exists
  /\ pc = "loop"
  /\ ~StreamLoopTest
  /\ stream' = IF Len(queue) = 0 /\ Cardinality(inProgress) = 0
               THEN [stream EXCEPT !.resultStream = Append(@, EndMarker)]
               ELSE stream
  /\ pc' = "done"
  /\ outcome' = "resolved"
  /\ UNCHANGED <<startURL, maxConcurrency, rateLimitMs, results, visited,
                 queue, inProgress, isProcessing, tasks, fetches, rounds,
                 delays, sleptMs, call, api, suspended, site, batches, app>>

StreamNext ==
  \/ StreamAdmit
  \/ \E i \in 1..Len(tasks) : \E response \in Responses :
       StreamFetchSettles(i, response)
  \/ \E i \in 1..Len(tasks) : \E ok \in BOOLEAN : StreamTextSettles(i, ok)
  \/ StreamBatchSettled
  \/ TimerFires
  \/ StreamExit

StreamSpec == StreamInit /\ [][StreamNext]_vars

\* every fetch and every read of a body settles, every timer fires
StreamFairSpec == StreamSpec /\ WF_vars(StreamNext)

(***************************************************************************)
(* BatchCrawler.crawlInBatches (packages/api/src/index.ts).  Every         *)
(* iteration of its loop awaits one crawl of the start URL; the state of   *)
(* that crawl is in the variables of a crawl invocation, the state of the  *)
(* loop in the fields of batches.                                          *)
(***************************************************************************)
\* the number of batches whose results and count are followed; allResults
\* and currentBatch are not read inside the loop, and the batches after
\* these leave them as they are
MaxBatches == 2

\* rateLimitMs: 100 in the options passed to crawl
BatchRateLimitMs == 100

BatchInit ==
  /\ startURL \in {Root, NotAURL}
  /\ maxConcurrency \in 1..MaxConc
  /\ rateLimitMs = BatchRateLimitMs
  /\ results = <<>>
  /\ visited = {}
  /\ queue = <<startURL>>
  /\ inProgress = {}
  /\ isProcessing = FALSE
  /\ pc = "call"
  /\ tasks = <<>>
  /\ fetches = <<>>
  /\ rounds = 0
  /\ delays = 0
  /\ sleptMs = 0
  /\ outcome = "pending"
  /\ call = NoCall
  /\ api = NoRequest
  /\ suspended = NoInvocation
  /\ site \in Sites
  /\ stream = NoStream
  /\ batches = [exists |-> TRUE, at |-> "crawling", allResults |-> <<>>,
                currentBatch |-> 0]
  /\ app = NoApp

\* the awaited crawl returned an empty list: break, and return allResults
BatchBreak ==
  /\ batches.exists
  /\ batches.at = "crawling"
  /\ pc = "done"
  /\ Len(results) = 0
  /\ batches' = [batches EXCEPT !.at = "returned"]
  /\ UNCHANGED <<crawlVars, call, api, suspended, site, stream, app>>

\* the awaited crawl returned results: they are pushed to allResults, the
\* batch is counted, and the next iteration calls crawl with the same
\* arguments
BatchContinue ==
  /\ batches.exists
  /\ batches.at = "crawling"
  /\ pc = "done"
  /\ Len(results) # 0
  /\ batches' = IF batches.currentBatch < MaxBatches
                THEN [batches EXCEPT !.allResults = @ \o results,
                                     !.currentBatch = @ + 1]
                ELSE batches
  /\ results' = <<>>
  /\ visited' = {}
  /\ queue' = <<startURL>>
  /\ inProgress' = {}
  /\ isProcessing' = FALSE
  /\ pc' = "call"
  /\ tasks' = <<>>
  /\ fetches' = <<>>
  /\ rounds' = 0
  /\ delays' = 0
  /\ sleptMs' = 0
  /\ outcome' = "pending"
  /\ UNCHANGED <<startURL, maxConcurrency, rateLimitMs, call, api, suspended,
                 site, stream, app>>

BatchNext ==
  \/ BatchBreak
  \/ BatchContinue
  \/ EnterProcessQueue
  \/ Admit
  \/ \E i \in 1..Len(tasks) : FetchSettles(i, SiteResponse(tasks[i].url))
  \/ BatchSettled
  \/ TimerFires
  \/ Return

BatchSpec == BatchInit /\ [][BatchNext]_vars

\* every fetch settles, every timer fires, every crawl call returns and the
\* loop goes on after it
BatchFairSpec == BatchSpec /\ WF_vars(BatchNext)

(***************************************************************************)
(* The App component of the web UI (packages/web/src/App.tsx).  app holds  *)
(* the useState values, the values the last render closed over, every      *)
(* fetch('/api/crawl') sent, and the handleCrawl calls that are suspended  *)
(* at an await.                                                            *)
(***************************************************************************)
\* the number of submit events of a session
MaxSubmits == 3

\* what the user types into the input: nothing, a space, a URL, some text
TypedURLs == {"", " ", "https://example.com", "example"}

\* url.trim()
Trim(url) == IF url = " " THEN "" ELSE url

\* the bodies the server answers with: data.results of a success, and
\* errorData.error of an error, which may be missing
ResultLists == {<<>>, <<[url |-> Root, links |-> <<>>]>>}
ErrorBodies == {"Invalid URL format", ""}

WebInit ==
  /\ startURL = Root
  /\ maxConcurrency = 1
  /\ rateLimitMs = 0
  /\ results = <<>>
  /\ visited = {}
  /\ queue = <<>>
  /\ inProgress = {}
  /\ isProcessing = FALSE
  /\ pc = "idle"
  /\ tasks = <<>>
  /\ fetches = <<>>
  /\ rounds = 0
  /\ delays = 0
  /\ sleptMs = 0
  /\ outcome = "pending"
  /\ call = NoCall
  /\ api = NoRequest
  /\ suspended = NoInvocation
  /\ site = NoSite
  /\ stream = NoStream
  /\ batches = NoBatch
  /\ app = [exists |-> TRUE, results |-> <<>>, isLoading |-> FALSE,
            error |-> "null", url |-> "https://example.com",
            rendered |-> [url |-> "https://example.com", isLoading |-> FALSE],
            submits |-> 0, requests |-> <<>>, awaiting |-> <<>>]

\* the values a render closes over
Rendered(a) == [url |-> a.url, isLoading |-> a.isLoading]

\* a sequence without its element i
RemoveAt(list, i) == SubSeq(list, 1, i - 1) \o SubSeq(list, i + 1, Len(list))

\* onChange of the input, which is disabled while the render has isLoading
ChangeUrl(value) ==
  /\ app.exists
  /\ ~app.rendered.isLoading
  /\ value # app.url
  /\ app' = [app EXCEPT !.url = value,
                        !.rendered = [url |-> value, isLoading |-> app.isLoading]]
  /\ UNCHANGED <<crawlVars, call, api, suspended, site, stream, batches>>

\* variant: the guard of handleCrawl tests the URL only
HandleCrawl_NoLoadingTest ==
  /\ app.exists
  /\ app.submits < MaxSubmits
  /\ IF Trim(app.rendered.url) = ""
     THEN app' = [app EXCEPT !.submits = @ + 1, !.rendered = Rendered(app)]
     ELSE app' = [app EXCEPT !.submits = @ + 1,
                             !.isLoading = TRUE,
                             !.error = "null",
                             !.results = <<>>,
                             !.requests = Append(@, app.rendered.url),
                             !.awaiting = Append(@, "fetch"),
                             !.rendered = [url |-> app.url, isLoading |-> TRUE]]
  /\ UNCHANGED <<crawlVars, call, api, suspended, site, stream, batches>>

\* a submit event: handleCrawl up to await fetch('/api/crawl'), and the
\* render that follows the event
HandleCrawl ==
  /\ app.exists
  /\ app.submits < MaxSubmits
  /\ IF Trim(app.rendered.url) = "" \/ app.rendered.isLoading
     THEN app' = [app EXCEPT !.submits = @ + 1, !.rendered = Rendered(app)]
     ELSE app' = [app EXCEPT !.submits = @ + 1,
                             !.isLoading = TRUE,
                             !.error = "null",
                             !.results = <<>>,
                             !.requests = Append(@, app.rendered.url),
                             !.awaiting = Append(@, "fetch"),
                             !.rendered = [url |-> app.url, isLoading |-> TRUE]]
  /\ UNCHANGED <<crawlVars, call, api, suspended, site, stream, batches>>

\* await fetch settles for the suspended call i: a rejection runs the catch
\* and the finally block, a response goes on to await response.json()
CrawlFetchSettles(i, kind) ==
  /\ app.exists
  /\ i \in 1..Len(app.awaiting)
  /\ app.awaiting[i] = "fetch"
  /\ app' = IF kind = "neterr"
            THEN [app EXCEPT !.error = "Network error",
                             !.isLoading = FALSE,
                             !.awaiting = RemoveAt(@, i)]
            ELSE [app EXCEPT !.awaiting[i] = IF kind = "ok" THEN "data"
                                             ELSE "errorData"]
  /\ UNCHANGED <<crawlVars, call, api, suspended, site, stream, batches>>

\* await response.json() settles for the suspended call i: setResults with
\* the data of a success, setError with the error of an error response or
\* with the reason of a body that does not parse; then the finally block
CrawlJsonSettles(i, parses, list, message) ==
  /\ app.exists
  /\ i \in 1..Len(app.awaiting)
  /\ app.awaiting[i] \in {"data", "errorData"}
  /\ app' = IF ~parses
            THEN [app EXCEPT !.error = "Unexpected token",
                             !.isLoading = FALSE,
                             !.awaiting = RemoveAt(@, i)]
            ELSE IF app.awaiting[i] = "errorData"
            THEN [app EXCEPT !.error = IF message = "" THEN "Crawl failed"
                                       ELSE message,
                             !.isLoading = FALSE,
                             !.awaiting = RemoveAt(@, i)]
            ELSE [app EXCEPT !.results = list,
                             !.isLoading = FALSE,
                             !.awaiting = RemoveAt(@, i)]
  /\ UNCHANGED <<crawlVars, call, api, suspended, site, stream, batches>>

\* the render React schedules after the state was set outside an event
Render ==
  /\ app.exists
  /\ app.rendered # Rendered(app)
  /\ app' = [app EXCEPT !.rendered = Rendered(app)]
  /\ UNCHANGED <<crawlVars, call, api, suspended, site, stream, batches>>

WebNext ==
  \/ \E value \in TypedURLs : ChangeUrl(value)
  \/ HandleCrawl
  \/ \E i \in 1..Len(app.awaiting) : \E kind \in {"ok", "status", "neterr"} :
       CrawlFetchSettles(i, kind)
  \/ \E i \in 1..Len(app.awaiting) : \E parses \in BOOLEAN :
       \E list \in ResultLists : \E message \in ErrorBodies :
         CrawlJsonSettles(i, parses, list, message)
  \/ Render

WebSpec == WebInit /\ [][WebNext]_vars

(***************************************************************************)
(* Vocabulary of the properties.                                           *)
(***************************************************************************)
\* the URL strings a crawl can meet: the start URLs that parse, the links of
\* every document on every page met, and their canonical keys
RECURSIVE LinkClosure(_)
LinkClosure(S) ==
  LET met == S \cup UNION {Range(getLinksFromHTML(html, url)) :
                             html \in Documents, url \in S}
  IN IF met = S THEN S ELSE LinkClosure(met)

KnownURLs ==
  LET met == LinkClosure({url \in StartURLs : CanParse(url)})
  IN met \cup {normalizeURL(url).value : url \in met}

\* normalizeURL, URL.hostname and getLinksFromHTML on the known strings,
\* computed once
KeyTable == [url \in KnownURLs |-> normalizeURL(url).value]

HostTable == [url \in KnownURLs |-> ParseURL(url).hostname]

LinksTable ==
  [html \in Documents |-> [url \in KnownURLs |-> getLinksFromHTML(html, url)]]

\* the canonical key of a URL string that parses
Key(url) ==
  IF url \in KnownURLs THEN KeyTable[url] ELSE normalizeURL(url).value

\* the URLs that have a record
RecordURLs == {results[j].url : j \in 1..Len(results)}

\* the indexes of the records of a canonical key
RecordsOf(key) == {j \in 1..Len(results) : results[j].url = key}

\* fetch call i has settled
Settled(i) == ~fetches[i].html.pending

\* the number of fetches outstanding
Outstanding == Cardinality({i \in 1..Len(fetches) : ~Settled(i)})

\* new URL(url) does not throw
Parses(url) == url \in KnownURLs \/ CanParse(url)

\* the host name of a URL string, "" if it does not parse
HostOf(url) ==
  IF url \in KnownURLs THEN HostTable[url]
  ELSE IF CanParse(url) THEN ParseURL(url).hostname ELSE ""

\* the links getLinksFromHTML extracts from a document fetched from url
LinksOf(html, url) ==
  IF html \in Documents /\ url \in KnownURLs THEN LinksTable[html][url]
  ELSE getLinksFromHTML(html, url)

\* the canonical key of every fetch call
FetchKeys == [i \in 1..Len(fetches) |-> Key(fetches[i].url)]

\* the links extracted from the page of every fetch call that brought a page
FetchLinks ==
  [i \in 1..Len(fetches) |->
     IF Settled(i) /\ ~fetches[i].html.null /\ ~fetches[i].html.empty
     THEN LinksOf(fetches[i].html.text, fetches[i].url)
     ELSE <<>>]

\* a frontier entry of the current batch was discarded as already known
SomeDuplicateDiscarded ==
  \E t \in 1..Len(tasks) :
    /\ tasks[t].fetch = 0
    /\ tasks[t].state = "fulfilled"
    /\ tasks[t].key \in visited \cup inProgress

(***************************************************************************)
(* C1.  Dedup completeness.                                                *)
(***************************************************************************)
\* C1: in every state of every crawl, and so in the list crawl returns, no
\* two records carry the same canonical URL.
C1_NoDuplicateRecords ==
  \A j, k \in 1..Len(results) : j # k => results[j].url # results[k].url

\* a crawl returned several records after a page was discovered again
C1_Witness ==
  /\ pc = "done"
  /\ Len(results) >= 3
  /\ SomeDuplicateDiscarded

(***************************************************************************)
(* C2.  Concurrency bound.                                                 *)
(***************************************************************************)
\* C2: in every state the in-flight set has at most maxConcurrency members
\* and at most maxConcurrency fetches are outstanding.
C2_ConcurrencyBound ==
  /\ Cardinality(inProgress) <= maxConcurrency
  /\ Outstanding <= maxConcurrency

\* all slots are taken while the frontier still holds entries
C2_Witness ==
  /\ maxConcurrency = 2
  /\ Cardinality(inProgress) = 2
  /\ Outstanding = 2
  /\ Len(queue) > 0

(***************************************************************************)
(* C3.  Termination.                                                       *)
(***************************************************************************)
\* C3: when every fetch settles and every timer fires, crawl eventually
\* returns, with the frontier and the in-flight set both empty.
C3_Terminates ==
  <>(pc = "done" /\ outcome = "resolved" /\ queue = <<>> /\ inProgress = {})

\* a crawl returned from a site with a self-link and a cycle of two pages
C3_Witness ==
  /\ pc = "done"
  /\ \E j \in 1..Len(results) : results[j].url \in Range(results[j].links)
  /\ \E j, k \in 1..Len(results) :
       /\ j # k
       /\ results[k].url \in Range(results[j].links)
       /\ results[j].url \in Range(results[k].links)

(***************************************************************************)
(* C4.  Scope containment.                                                 *)
(***************************************************************************)
\* C4: every record and every fetch is for a URL on the host of the start
\* URL; a link to another host is listed in the links of the record of the
\* page that contains it.
C4_ScopeContainment ==
  \E host \in {HostOf(startURL)} : \E keys \in {FetchKeys} : \E links \in {FetchLinks} :
    /\ \A j \in 1..Len(results) :
         Parses(results[j].url) /\ HostOf(results[j].url) = host
    /\ \A i \in 1..Len(fetches) :
         Parses(fetches[i].url) /\ HostOf(fetches[i].url) = host
    /\ \A i \in 1..Len(fetches) : \A link \in Range(links[i]) :
         HostOf(link) # host =>
           \E j \in RecordsOf(keys[i]) : Key(link) \in Range(results[j].links)

\* a crawl returned a record that lists a link to another host
C4_Witness ==
  /\ pc = "done"
  /\ \E j \in 1..Len(results) : \E link \in Range(results[j].links) :
       /\ HostOf(link) = "blog.h.com"
       /\ HostOf(startURL) = "h.com"
       /\ link \notin RecordURLs

(***************************************************************************)
(* C5.  One fetch and one record per dispatched canonical URL.             *)
(***************************************************************************)
\* C5: no two fetch calls are for the same canonical URL, a canonical URL
\* has one record once its fetch has settled and none before, every record
\* belongs to a settled fetch, and at return the number of fetch calls
\* equals the number of records.
C5_OneFetchOneRecord ==
  \E keys \in {FetchKeys} :
    /\ \A i, k \in 1..Len(fetches) : i # k => keys[i] # keys[k]
    /\ \A i \in 1..Len(fetches) :
         Cardinality(RecordsOf(keys[i])) = IF Settled(i) THEN 1 ELSE 0
    /\ \A j \in 1..Len(results) :
         \E i \in 1..Len(fetches) : Settled(i) /\ keys[i] = results[j].url
    /\ pc = "done" => Len(fetches) = Len(results)

\* a crawl returned after three or more fetches, one of them failed, and a
\* rediscovered page was not fetched again
C5_Witness ==
  /\ pc = "done"
  /\ Len(fetches) >= 3
  /\ \E i \in 1..Len(fetches) : fetches[i].html.null
  /\ SomeDuplicateDiscarded

(***************************************************************************)
(* C6.  A malformed start URL.                                             *)
(***************************************************************************)
\* C6: crawl rejects when the start URL is not a well-formed absolute URL;
\* it does not resolve with a result list.
C6_InvalidStartRejects ==
  (pc = "done" /\ ~CanParse(startURL)) => outcome = "rejected"

(***************************************************************************)
(* C7.  Fetch failures are absorbed.                                       *)
(***************************************************************************)
\* C7: for a well-formed start URL crawl never rejects; every settled fetch
\* has exactly one record, with no links when the fetch failed and with the
\* page's own links otherwise, whatever happened to the other fetches.
C7_FailuresAbsorbed ==
  CanParse(startURL) =>
    \E keys \in {FetchKeys} : \E links \in {FetchLinks} :
      /\ outcome # "rejected"
      /\ pc = "done" => outcome = "resolved"
      /\ \A i \in 1..Len(fetches) :
           Settled(i) =>
             /\ Cardinality(RecordsOf(keys[i])) = 1
             /\ \A j \in RecordsOf(keys[i]) :
                  results[j].links =
                    IF fetches[i].html.null \/ fetches[i].html.empty THEN <<>>
                    ELSE Dedup([k \in 1..Len(links[i]) |-> Key(links[i][k])])

\* in one batch a fetch failed and a sibling was recorded with its links
C7_Witness ==
  \E a, b \in 1..Len(tasks) :
    /\ a # b
    /\ tasks[a].fetch # 0 /\ tasks[b].fetch # 0
    /\ Settled(tasks[a].fetch) /\ Settled(tasks[b].fetch)
    /\ fetches[tasks[a].fetch].html.null
    /\ \E j \in RecordsOf(tasks[a].key) : results[j].links = <<>>
    /\ \E j \in RecordsOf(tasks[b].key) : Len(results[j].links) >= 2

(***************************************************************************)
(* C8.  Unseen, in-flight, visited.                                        *)
(***************************************************************************)
\* C8: no canonical URL is visited and in-flight at once.
C8_VisitedInFlightDisjoint == visited \cap inProgress = {}

\* a visited URL is dispatched again while another URL is in flight
C8_Witness ==
  /\ visited # {}
  /\ inProgress # {}
  /\ \E t \in 1..Len(tasks) : tasks[t].fetch = 0 /\ tasks[t].key \in visited

(***************************************************************************)
(* C9.  The records are the reachable pages.                               *)
(***************************************************************************)
\* the same-host links listed in the records of the keys in S
LinkedFrom(S) ==
  {link \in UNION {Range(results[j].links) : j \in 1..Len(results)} :
     /\ HostOf(link) = HostOf(startURL)
     /\ \E j \in 1..Len(results) :
          results[j].url \in S /\ link \in Range(results[j].links)}

\* the keys reachable from S by following same-host links of the records
RECURSIVE ReachableFrom(_)
ReachableFrom(S) ==
  IF LinkedFrom(S) \subseteq S THEN S ELSE ReachableFrom(S \cup LinkedFrom(S))

\* C9: when crawl resolves for a valid start URL, the start URL has a
\* record, every same-host link listed in a record has a record, and the
\* recorded URLs are exactly those reachable from the start URL.
C9_RecordsAreReachablePages ==
  (pc = "done" /\ CanParse(startURL)) =>
    /\ Key(startURL) \in RecordURLs
    /\ \A j \in 1..Len(results) : \A link \in Range(results[j].links) :
         HostOf(link) = HostOf(startURL) => link \in RecordURLs
    /\ RecordURLs = ReachableFrom({Key(startURL)})

\* a crawl returned three or more pages, one found only through another
\* discovered page, and left a link to another host without a record
C9_Witness ==
  /\ pc = "done"
  /\ CanParse(startURL)
  /\ Len(results) >= 3
  /\ \E j \in 1..Len(results) :
       /\ results[j].url # Key(startURL)
       /\ \A k \in RecordsOf(Key(startURL)) : results[j].url \notin Range(results[k].links)
  /\ \E j \in 1..Len(results) : \E link \in Range(results[j].links) :
       HostOf(link) # HostOf(startURL)

C11_NormalizeIdempotent ==
  (call.fn = "normalizeURL" /\ Len(call.returned) = 2) =>
    /\ ~call.returned[2].threw
    /\ call.returned[2].value = call.returned[1].value

(***************************************************************************)
(* C12.  What normalizeURL keeps and what it strips.                       *)
(***************************************************************************)
\* the tokens of s that belong to T, in order
Only(s, T) == SelectSeq(s, LAMBDA t : t \in T)

\* the path tokens of a URL string
PathPart(s) == Only(s, PathTokens)

\* v is u with one '/' added to a path that does not end in '/'
AddsTrailingSlash(u, v) ==
  /\ PathPart(v) = PathPart(u) \o <<"/">>
  /\ PathPart(u) = <<>> \/ Last(PathPart(u)) # "/"
  /\ SelectSeq(v, LAMBDA t : t \notin PathTokens)
       = SelectSeq(u, LAMBDA t : t \notin PathTokens)

\* u and v differ only by one trailing slash or only by the fragment
SamePageSpelling(u, v) ==
  \/ AddsTrailingSlash(u, v)
  \/ AddsTrailingSlash(v, u)
  \/ /\ u # v
     /\ SelectSeq(u, LAMBDA t : t \notin Fragments)
          = SelectSeq(v, LAMBDA t : t \notin Fragments)

C13_SameSubdomainTotal ==
  (call.fn = "isSameSubdomain" /\ call.returned # <<>>) =>
    LET base == call.args[1]
        target == call.args[2]
    IN /\ call.returned[1] \in BOOLEAN
       /\ call.returned[1] <=>
            /\ CanParse(base) /\ CanParse(target)
            /\ base[3] = target[3]

\* the call returned false for a target that does not parse and a base
\* that does
C13_Witness ==
  /\ call.fn = "isSameSubdomain"
  /\ call.returned = <<FALSE>>
  /\ CanParse(call.args[1])
  /\ ~CanParse(call.args[2])
  /\ call.args[2] # <<>>

(***************************************************************************)
(* C14.  The links of a record.                                            *)
(***************************************************************************)
\* the index of the first occurrence of x in list
FirstIndex(list, x) ==
  CHOOSE k \in 1..Len(list) : list[k] = x /\ \A m \in 1..(k - 1) : list[m] # x

\* C14: the links of the record of a fetched page are the canonical forms of
\* the links extracted from the page, those to other hosts included, each
\* listed once, in the order of their first occurrence in the document.
C14_RecordLinks ==
  \E keys \in {FetchKeys} : \E links \in {FetchLinks} :
    \A i \in 1..Len(fetches) :
      (Settled(i) /\ ~fetches[i].html.null /\ ~fetches[i].html.empty) =>
        \A j \in RecordsOf(keys[i]) :
          LET listed == results[j].links
              extracted == [k \in 1..Len(links[i]) |-> Key(links[i][k])]
          IN /\ Range(listed) = Range(extracted)
             /\ \A a, b \in 1..Len(listed) :
                  a < b => /\ listed[a] # listed[b]
                           /\ FirstIndex(extracted, listed[a])
                                < FirstIndex(extracted, listed[b])

\* a record lists a page once, before a link to another host, although the
\* document links to the page again after that link
C14_Witness ==
  \E i \in 1..Len(fetches) : \E j \in 1..Len(results) :
    /\ Settled(i)
    /\ results[j].url = Key(fetches[i].url)
    /\ Len(results[j].links) = 2
    /\ HostOf(results[j].links[1]) = HostOf(startURL)
    /\ HostOf(results[j].links[2]) # HostOf(startURL)
    /\ Len(LinksOf(fetches[i].html.text, fetches[i].url)) = 3

(***************************************************************************)
(* C15.  Order of the records.                                             *)
(***************************************************************************)
\* the concatenation of the sequences of a sequence
RECURSIVE Flatten(_)
Flatten(lists) ==
  IF lists = <<>> THEN <<>> ELSE Head(lists) \o Flatten(Tail(lists))

\* with one fetch at a time: the canonical keys of the URLs appended to the
\* frontier so far, in the order of appending, the start URL first
AppendedKeys ==
  LET links == FetchLinks
      pushed == Flatten([i \in 1..Len(fetches) |->
                  SelectSeq(links[i], LAMBDA link : HostOf(link) = HostOf(startURL))])
  IN <<Key(startURL)>> \o [k \in 1..Len(pushed) |-> Key(pushed[k])]

\* C15: the first record is that of the canonical start URL; with
\* maxConcurrency = 1 the records are in the order in which their URLs were
\* first appended to the frontier, and no URL appended before a recorded one
\* is left without a record.
C15_FifoOrder ==
  /\ results # <<>> => results[1].url = Key(startURL)
  /\ (maxConcurrency = 1 /\ results # <<>>) =>
       \E appended \in {AppendedKeys} :
         /\ \A j \in 1..Len(results) : results[j].url \in Range(appended)
         /\ \A a, b \in 1..Len(results) :
              a < b => FirstIndex(appended, results[a].url)
                         < FirstIndex(appended, results[b].url)
         /\ \A b \in 1..Len(results) :
              \A k \in 1..FirstIndex(appended, results[b].url) :
                appended[k] \in RecordURLs

\* a crawl with one fetch at a time returned the start page, then two pages
\* the start page links to, then a page found later
C15_Witness ==
  /\ pc = "done"
  /\ maxConcurrency = 1
  /\ Len(results) >= 4
  /\ results[1].url = Key(startURL)
  /\ results[2].url \in Range(results[1].links)
  /\ results[3].url \in Range(results[1].links)
  /\ results[4].url \notin Range(results[1].links)

(***************************************************************************)
(* C16.  POST /api/crawl with a missing or malformed url.                  *)
(***************************************************************************)
\* C16: a request without url, or with the empty string, is answered 400
\* 'URL is required', one whose url is no absolute URL is answered 400
\* 'Invalid URL format', and for neither is crawl called.
C16_BadRequest ==
  LET missing == ~api.url.defined \/ api.url.value = <<>>
      malformed == ~missing /\ ~CanParse(api.url.value)
  IN (missing \/ malformed) =>
       /\ api.crawlCalls = <<>>
       /\ pc = "idle"
       /\ api.at = "responded" =>
            api.responses =
              << [status |-> 400,
                  body |-> [error |-> IF missing THEN "URL is required"
                                      ELSE "Invalid URL format"]] >>

\* a request with a url that is no absolute URL has been answered
C16_Witness ==
  /\ api.at = "responded"
  /\ api.url.defined
  /\ api.url.value = NotAURL
  /\ Len(api.responses) = 1
  /\ api.responses[1].status = 400

(***************************************************************************)
(* C17.  POST /api/crawl with a valid url.                                 *)
(***************************************************************************)
\* C17: for a request whose url passes validation crawl is called once,
\* with the url, maxConcurrency 5 and rateLimitMs 100, and one response is
\* sent: 200 with success, the results and their number when crawl
\* resolved, 500 with an error when crawl rejected.
C17_ValidRequest ==
  (api.url.defined /\ CanParse(api.url.value)) =>
    /\ api.at = "received" => api.crawlCalls = <<>> /\ api.responses = <<>>
    /\ api.at # "received" =>
         api.crawlCalls = << [url |-> api.url.value, maxConcurrency |-> 5,
                              rateLimitMs |-> 100] >>
    /\ api.at = "awaiting" => api.responses = <<>>
    /\ api.at = "responded" =>
         /\ Len(api.responses) = 1
         /\ outcome \in {"resolved", "rejected"}
         /\ outcome = "resolved" =>
              /\ api.responses[1].status = 200
              /\ api.responses[1].body.success = TRUE
              /\ api.responses[1].body.results = results
              /\ api.responses[1].body.message[2] = Len(results)
         /\ outcome = "rejected" =>
              /\ api.responses[1].status = 500
              /\ api.responses[1].body.error
                   \in {"Network error", "Unknown error occurred"}

\* a request was answered 500 after the crawl it called had rejected
C17_Witness ==
  /\ api.at = "responded"
  /\ Len(api.crawlCalls) = 1
  /\ outcome = "rejected"
  /\ Len(api.responses) = 1
  /\ api.responses[1].status = 500

(***************************************************************************)
(* C18.  Each crawl invocation has its own state.                          *)
(***************************************************************************)
\* the record of a page of the site when it is crawled alone
AloneRecord(key) ==
  LET links == IF Site(key).kind = "html"
               THEN getLinksFromHTML(Site(key).body, key) ELSE <<>>
  IN [url |-> key, links |-> Dedup([k \in 1..Len(links) |-> Key(links[k])])]

\* the keys reached from the keys in S by same-host links of the site
RECURSIVE AloneReachable(_, _)
AloneReachable(S, host) ==
  LET next == {link \in UNION {Range(AloneRecord(key).links) : key \in S} :
                 HostOf(link) = host}
  IN IF next \subseteq S THEN S ELSE AloneReachable(S \cup next, host)

\* C18: while two invocations are interleaved, the records and the visited
\* set of the running one come from its own fetches only, an entry it
\* discards as known is one it fetched itself, and it returns the records
\* of the pages reachable from its start URL, which is what it returns when
\* it runs alone.
C18_InvocationsIsolated ==
  \E keys \in {FetchKeys} :
    /\ \A j \in 1..Len(results) :
         \E i \in 1..Len(fetches) : Settled(i) /\ keys[i] = results[j].url
    /\ visited = {keys[i] : i \in {f \in 1..Len(fetches) : Settled(f)}}
    /\ \A t \in 1..Len(tasks) :
         (tasks[t].fetch = 0 /\ HostOf(tasks[t].url) = HostOf(startURL)) =>
           tasks[t].key \in Range(keys)
    /\ pc = "done" =>
         Range(results) =
           {AloneRecord(key) :
              key \in AloneReachable({Key(startURL)}, HostOf(startURL))}

\* an invocation has returned three records while the other one, which has
\* recorded a page already, is fetching a page the first one visited
C18_Witness ==
  /\ suspended.exists
  /\ pc = "done"
  /\ Len(results) = 3
  /\ suspended.pc = "join"
  /\ suspended.visited # {}
  /\ suspended.inProgress \cap visited # {}

(***************************************************************************)
(* C19.  Two entries of one batch with the same canonical key.             *)
(***************************************************************************)
\* C19: of two frontier entries admitted in the same batch whose canonical
\* keys are equal, the later one starts no fetch, and the key has at most
\* one fetch and at most one record.
C19_SameBatchDuplicates ==
  \E keys \in {FetchKeys} :
    \A a, b \in 1..Len(tasks) :
      (a < b /\ Parses(tasks[a].url) /\ Parses(tasks[b].url)
         /\ tasks[a].key = tasks[b].key) =>
        /\ tasks[b].fetch = 0
        /\ tasks[b].state = "fulfilled"
        /\ Cardinality({i \in 1..Len(fetches) : keys[i] = tasks[a].key}) <= 1
        /\ Cardinality(RecordsOf(tasks[a].key)) <= 1

\* two entries of a batch had the same key: the first was fetched and
\* recorded, the second was discarded
C19_Witness ==
  \E a, b \in 1..Len(tasks) :
    /\ a < b
    /\ tasks[a].key = tasks[b].key
    /\ tasks[a].url # tasks[b].url
    /\ tasks[a].fetch # 0
    /\ Settled(tasks[a].fetch)
    /\ tasks[b].fetch = 0
    /\ Cardinality(RecordsOf(tasks[a].key)) = 1

(***************************************************************************)
(* C20.  Which discovered links are appended to the frontier.              *)
(***************************************************************************)
\* C20: a step that appends links to the frontier appends only links on the
\* host of the start URL whose canonical key is, at that moment, neither
\* visited nor in flight; a page's link to itself is not appended.
C20_AppendOnlyUnseen ==
  [][\A k \in (Len(queue) + 1)..Len(queue') :
       /\ HostOf(queue'[k]) = HostOf(startURL)
       /\ Key(queue'[k]) \notin visited \cup inProgress]_vars

(***************************************************************************)
(* C21.  Dispatching a known URL is a no-op.                               *)
(***************************************************************************)
\* entry t of the batch has the key of an earlier entry of the batch
RepeatsInBatch(batch, t) == \E e \in 1..(t - 1) : batch[e].key = batch[t].key

\* C21: in the step that dispatches a batch, an entry whose key is visited,
\* in flight or taken by an earlier entry of the batch starts no fetch and
\* settles at once; the step adds a fetch and an in-flight key for the other
\* entries only, appends nothing to the frontier and leaves the records and
\* the visited set as they are.
C21_KnownDispatchNoOp ==
  [][(pc = "loop" /\ pc' = "join") =>
       LET fresh == {t \in 1..Len(tasks') : tasks'[t].fetch # 0}
       IN /\ \A t \in 1..Len(tasks') :
               (Parses(tasks'[t].url)
                  /\ (tasks'[t].key \in visited \cup inProgress
                        \/ RepeatsInBatch(tasks', t))) =>
                 tasks'[t].fetch = 0 /\ tasks'[t].state = "fulfilled"
          /\ Len(fetches') = Len(fetches) + Cardinality(fresh)
          /\ SubSeq(fetches', 1, Len(fetches)) = fetches
          /\ inProgress' = inProgress \cup {tasks'[t].key : t \in fresh}
          /\ results' = results
          /\ visited' = visited
          /\ queue' = SubSeq(queue, Len(tasks') + 1, Len(queue))]_vars

\* a batch of entries that were all visited before has been dispatched:
\* nothing is in flight and no fetch was added
C21_Witness ==
  /\ pc = "join"
  /\ tasks # <<>>
  /\ \A t \in 1..Len(tasks) :
       /\ tasks[t].fetch = 0
       /\ tasks[t].state = "fulfilled"
       /\ tasks[t].key \in visited
  /\ inProgress = {}
  /\ Len(fetches) = Len(results)
  /\ Len(results) >= 2

(***************************************************************************)
(* C22.  The batch is a barrier.                                           *)
(***************************************************************************)
\* the member t of the last batch that started a fetch is finalized: its
\* fetch has settled, its record is in the list, its key is visited and no
\* longer in flight
Finalized(t) ==
  /\ tasks[t].state = "fulfilled"
  /\ ~fetches[tasks[t].fetch].html.pending
  /\ \E r \in 1..Len(results) : results[r].url = tasks[t].key
  /\ tasks[t].key \in visited
  /\ tasks[t].key \notin inProgress

\* C22: whenever the scheduler is past the wait for a batch (about to test
\* the loop condition, in the rate-limit delay, or returned), every member of
\* that batch that started a fetch is finalized, whatever its fetch gave,
\* and no member is still pending.
C22_BatchBarrier ==
  pc \in {"loop", "sleep", "done"} =>
    \A t \in 1..Len(tasks) :
      /\ tasks[t].state # "pending"
      /\ tasks[t].fetch # 0 => Finalized(t)

\* the wait for a batch of two is over, one fetch failed and the other
\* succeeded, and the frontier holds entries for the next round
C22_Witness ==
  /\ pc \in {"loop", "sleep"}
  /\ Len(tasks) = 2
  /\ tasks[1].fetch # 0 /\ tasks[2].fetch # 0
  /\ Finalized(1) /\ Finalized(2)
  /\ \E t, u \in 1..2 :
       /\ Falsy(fetches[tasks[t].fetch].html)
       /\ ~Falsy(fetches[tasks[u].fetch].html)
  /\ queue # <<>>

(***************************************************************************)
(* C23.  Unseen, in flight, visited: forward only.                         *)
(***************************************************************************)
\* C23: in every step the visited set keeps its members, a key that joins it
\* was in flight before the step, no visited key is put in flight, a key
\* that leaves the in-flight set is visited after the step, and the record
\* list keeps every record it had, unchanged and in place.
C23_ForwardOnly ==
  [][/\ visited \subseteq visited'
     /\ (visited' \ visited) \subseteq inProgress
     /\ inProgress' \cap visited = {}
     /\ (inProgress \ inProgress') \subseteq visited'
     /\ Len(results') >= Len(results)
     /\ SubSeq(results', 1, Len(results)) = results]_vars

\* two URLs have gone from unseen through in flight to visited, each with
\* its record, while a third one is in flight
C23_Witness ==
  /\ pc = "join"
  /\ rounds >= 2
  /\ Cardinality(visited) >= 2
  /\ Len(results) = Cardinality(visited)
  /\ inProgress # {}
  /\ inProgress \cap visited = {}

(***************************************************************************)
(* C24.  A fetch that never completes.                                     *)
(***************************************************************************)
\* a step the scheduler takes by itself, without any fetch settling
SchedulerStep == EnterProcessQueue \/ Admit \/ BatchSettled \/ TimerFires

\* C24: a fetch that has not settled holds one slot only: while the frontier
\* has entries and fewer than maxConcurrency fetches are outstanding, the
\* scheduler can go on towards the next admission without waiting for an
\* outstanding fetch to settle.
C24_HungFetchOneSlot ==
  (queue # <<>> /\ Outstanding >= 1 /\ Outstanding < maxConcurrency) =>
    ENABLED SchedulerStep

(***************************************************************************)
(* C25.  What an admission round takes from the frontier.                  *)
(***************************************************************************)
Min(a, b) == IF a <= b THEN a ELSE b

\* C25: a round of the loop takes the first
\* min(maxConcurrency - |inProgress|, |queue|) entries of the frontier, in
\* their order, as its batch and leaves the entries behind them as the
\* frontier; with nothing to take, the frontier and the batch of the round
\* before stay as they are and the crawl carries on.
C25_AdmissionTakesHead ==
  [][rounds' = rounds + 1 =>
       LET n == Min(maxConcurrency - Cardinality(inProgress), Len(queue))
       IN /\ n >= 0
          /\ queue' = SubSeq(queue, n + 1, Len(queue))
          /\ n > 0 => /\ Len(tasks') = n
                      /\ \A t \in 1..n : tasks'[t].url = queue[t]
          /\ n = 0 => tasks' = tasks /\ pc' \in {"loop", "sleep"}
          /\ outcome' = outcome]_vars

\* a round has just taken maxConcurrency entries, none of their fetches has
\* settled, and entries it did not take are still in the frontier
C25_Witness ==
  /\ pc = "join"
  /\ maxConcurrency = 2
  /\ Len(tasks) = maxConcurrency
  /\ \A t \in 1..Len(tasks) : tasks[t].fetch # 0 => tasks[t].state = "pending"
  /\ Len(results) + Cardinality(inProgress) = Len(fetches)
  /\ queue # <<>>

(***************************************************************************)
(* C26.  The state crawl returns in.                                       *)
(***************************************************************************)
\* C26: when crawl has returned, the frontier and the in-flight set are
\* empty, no fetch and no member of the last batch is unfinished, and the
\* URLs of the returned records are exactly the visited keys.
C26_ReturnsWhenDrained ==
  pc = "done" =>
    /\ outcome = "resolved"
    /\ queue = <<>>
    /\ inProgress = {}
    /\ Outstanding = 0
    /\ \A t \in 1..Len(tasks) : tasks[t].state # "pending"
    /\ \A key \in visited : \E r \in 1..Len(results) : results[r].url = key
    /\ \A r \in 1..Len(results) : results[r].url \in visited

\* crawl has returned after several rounds, with three pages visited, links
\* found, and a fetch that failed
C26_Witness ==
  /\ pc = "done"
  /\ rounds >= 3
  /\ Cardinality(visited) = 3
  /\ \E r \in 1..Len(results) : results[r].links # <<>>
  /\ \E f \in 1..Len(fetches) : fetches[f].html.null

(***************************************************************************)
(* C27.  The links of a page enter the frontier as one block.              *)
(***************************************************************************)
\* the links of fetch f that are on the start URL's host, in document order
BlockOf(f) ==
  SelectSeq(FetchLinks[f], LAMBDA link : HostOf(link) = HostOf(startURL))

\* the last n entries of a list
Suffix(list, n) == SubSeq(list, Len(list) - n + 1, Len(list))

\* C27: the step in which a fetch settles appends the same-host links of its
\* page to the end of the frontier, all of them, in document order, and
\* changes nothing else in the frontier; no other step appends to it.
C27_LinksAsOneBlock ==
  [][/\ \A f \in 1..Len(fetches) :
          (fetches[f].html.pending /\ ~fetches'[f].html.pending) =>
            queue' = queue \o BlockOf(f)'
     /\ (\A f \in 1..Len(fetches) : fetches'[f] = fetches[f]) =>
          Len(queue') <= Len(queue)]_vars

\* two pages of one batch have both brought links, of two or more entries in
\* one of them, and the block of the page dispatched first lies behind the
\* block of the other one: the second fetch completed first
C27_Witness ==
  /\ pc = "join"
  /\ Len(tasks) = 2
  /\ tasks[1].state = "fulfilled" /\ tasks[2].state = "fulfilled"
  /\ tasks[1].fetch # 0 /\ tasks[2].fetch # 0
  /\ LET first == BlockOf(tasks[1].fetch)
         second == BlockOf(tasks[2].fetch)
     IN /\ first # <<>> /\ second # <<>>
        /\ first # second
        /\ Len(first) >= 2 \/ Len(second) >= 2
        /\ Len(queue) >= Len(first) + Len(second)
        /\ Suffix(queue, Len(first) + Len(second)) = second \o first

(***************************************************************************)
(* C28.  Records and the visited set go together.                          *)
(***************************************************************************)
\* C28: in every state the URLs that have a record are exactly the visited
\* keys, and no key that is in flight has a record.
C28_RecordsAreVisited ==
  /\ RecordURLs = visited
  /\ \A key \in inProgress : RecordsOf(key) = {}

\* in the middle of a batch: one fetch has failed and has its record with no
\* links, another URL is still in flight and has none
C28_Witness ==
  /\ pc = "join"
  /\ Len(tasks) = 2
  /\ \E t, u \in 1..2 :
       /\ tasks[t].state = "fulfilled" /\ tasks[t].fetch # 0
       /\ fetches[tasks[t].fetch].html.null
       /\ \E j \in RecordsOf(tasks[t].key) : results[j].links = <<>>
       /\ tasks[u].state = "pending"
       /\ tasks[u].key \in inProgress
       /\ RecordsOf(tasks[u].key) = {}

(***************************************************************************)
(* C29.  What the frontier holds besides the start URL.                    *)
(***************************************************************************)
\* C29: after every step, each frontier entry other than the start URL
\* parses and has the start URL's host; and in a step that dispatches a
\* batch, for each such entry normalizeURL does not throw and the entry
\* either starts a fetch or is discarded because its key is visited, in
\* flight or taken by an earlier entry of the batch, never by the scope test.
C29_FrontierInScope ==
  [][/\ \A k \in 1..Len(queue') :
          queue'[k] # startURL =>
            Parses(queue'[k]) /\ HostOf(queue'[k]) = HostOf(startURL)
     /\ (pc = "loop" /\ pc' = "join") =>
          \A t \in 1..Len(tasks') :
            tasks'[t].url # startURL =>
              /\ tasks'[t].state # "rejected"
              /\ tasks'[t].fetch = 0 =>
                   \/ tasks'[t].key \in visited \cup inProgress
                   \/ RepeatsInBatch(tasks', t)]_vars

\* a page with a link to another host has been fetched, and a batch of its
\* links, none of them the start URL, is dispatched with a fetch started
C29_Witness ==
  /\ pc = "join"
  /\ rounds >= 2
  /\ \E f \in 1..Len(fetches) :
       \E k \in 1..Len(FetchLinks[f]) :
         HostOf(FetchLinks[f][k]) # HostOf(startURL)
  /\ tasks # <<>>
  /\ \A t \in 1..Len(tasks) : tasks[t].url # startURL
  /\ \E t \in 1..Len(tasks) : tasks[t].fetch # 0

(***************************************************************************)
(* C30.  The records do not depend on maxConcurrency or completion order.  *)
(***************************************************************************)
\* the records of a result list, as a set
RecordSet(list) == {list[j] : j \in 1..Len(list)}

\* the site answers every two URL strings that have one canonical key with
\* the same response
SpellingBlind ==
  \A url, other \in DOMAIN site : Key(url) = Key(other) => site[url] = site[other]

\* both crawls of the site have returned
BothReturned == pc = "done" /\ suspended.pc = "done"

\* C30, as stated: two crawls of one site from one start URL return the same
\* set of records, whatever their maxConcurrency and the completion order of
\* their fetches, on every site.
C30_SameRecords ==
  BothReturned => RecordSet(results) = RecordSet(suspended.results)

\* C30, amended: they return the same set of records on a site that answers
\* the URL strings of one canonical key alike.
C30_SameRecordsSpellingBlind ==
  (BothReturned /\ SpellingBlind) =>
    RecordSet(results) = RecordSet(suspended.results)

\* on such a site a crawl with maxConcurrency 1 and one with 2 have returned;
\* one has fetched /a/b and the other /a/b/ for the same key, and the order
\* of their records differs
C30_Witness ==
  /\ BothReturned
  /\ SpellingBlind
  /\ maxConcurrency # suspended.maxConcurrency
  /\ \E f \in 1..Len(fetches) : fetches[f].url = PageAB
  /\ \E f \in 1..Len(suspended.fetches) : suspended.fetches[f].url = PageABSlash
  /\ results # suspended.results
  /\ Len(results) = 4

(***************************************************************************)
(* C31.  maxPages bounds the results of crawlStream.                       *)
(***************************************************************************)
\* the positions of the results pushed to the stream
StreamResults ==
  {k \in 1..Len(stream.resultStream) : ~stream.resultStream[k].end}

\* C31: the stream never holds more than maxPages results.
C31_AtMostMaxPages == Cardinality(StreamResults) <= stream.maxPages

(***************************************************************************)
(* C33.  The end of the stream.                                            *)
(***************************************************************************)
\* the positions of the end markers pushed to the stream
StreamEnds ==
  {k \in 1..Len(stream.resultStream) : stream.resultStream[k].end}

\* the stream is ended at most once and the end marker is its last item
EndIsLast == StreamEnds \subseteq {Len(stream.resultStream)}

\* C33: when every fetch and every read of a body settles, the stream is
\* ended eventually; in every state it holds at most one end marker, with no
\* result behind it; and the step that pushes the end marker is taken with
\* the queue and the in-progress set empty and no task of the last batch
\* unsettled.
C33_StreamEndsOnce ==
  /\ <>(StreamEnds # {})
  /\ []EndIsLast
  /\ [][(StreamEnds = {} /\ StreamEnds' # {}) =>
          /\ queue = <<>> /\ inProgress = {}
          /\ \A t \in 1..Len(tasks) : tasks[t].state \in {"fulfilled", "rejected"}
          /\ queue' = <<>> /\ inProgress' = {}]_vars

\* the stream is ended behind two results, after a round whose fetch failed
C33_Witness ==
  /\ pc = "done"
  /\ StreamEnds = {Len(stream.resultStream)}
  /\ Cardinality(StreamResults) = 2
  /\ \E f \in 1..Len(fetches) : fetches[f].html.null
  /\ queue = <<>> /\ inProgress = {}

(***************************************************************************)
(* C32.  crawlInBatches returns.                                           *)
(***************************************************************************)
\* C32: when every fetch settles and every crawl call returns,
\* crawlInBatches eventually leaves its loop and returns.
C32_BatchesReturn == <>(batches.at = "returned")

(***************************************************************************)
(* C34.  isLoading and the requests of the web UI.                         *)
(***************************************************************************)
\* C34: in every state at most one request is outstanding and isLoading is
\* true exactly when one is; a step taken while isLoading is true or the URL
\* is blank sends no request; and a step in which a request settles, with
\* data, with an error status, with a body that does not parse or with a
\* network failure, leaves isLoading false.
C34_OneRequestWhileLoading ==
  /\ [](/\ Len(app.awaiting) <= 1
        /\ app.isLoading <=> Len(app.awaiting) = 1)
  /\ [][/\ (app.isLoading \/ Trim(app.url) = "") => app.requests' = app.requests
        /\ Len(app.awaiting') < Len(app.awaiting) => ~app.isLoading']_vars

\* a second request is outstanding after the first one ended in an error,
\* and a submit made while loading or with a blank URL has sent nothing
C34_Witness ==
  /\ app.isLoading
  /\ Len(app.awaiting) = 1
  /\ Len(app.requests) = 2
  /\ app.submits = 3

(***************************************************************************)
(* C35.  One scheduler loop per crawl invocation.                          *)
(***************************************************************************)
\* processQueue is inside its loop
InLoop == pc \in {"loop", "join", "sleep"}

\* C35: isProcessing is true exactly while processQueue is inside its loop,
\* false before the call and after the loop; the loop is entered from the
\* call only, with no round made yet, and never entered again; and
\* processQueue never returns through its guard, straight from the call.
C35_OneSchedulerLoop ==
  /\ [](isProcessing <=> InLoop)
  /\ [][/\ (~InLoop /\ InLoop') => (pc = "call" /\ rounds = 0 /\ ~isProcessing)
        /\ pc' = "call" => pc = "call"
        /\ ~(pc = "call" /\ pc' = "done")
        /\ (InLoop /\ ~InLoop') => (pc' = "done" /\ ~isProcessing')]_vars

\* the loop has ended after several rounds and a delay, and the flag is
\* false again
C35_Witness ==
  /\ pc = "done"
  /\ ~isProcessing
  /\ rounds >= 2
  /\ delays >= 1
  /\ outcome = "resolved"

====
